---- MODULE Spec2Model ----
(***************************************************************************)
(* A model of implog: the DNF provenance semiring (assumption.rs), the     *)
(* interner (interner.rs), the row store and keyed table (table.rs) and    *)
(* the semi-naive evaluator (interpret.rs).                                *)
(*                                                                         *)
(* Row ids are 0-based as in the source; TLA+ sequences are 1-based, so    *)
(* row r of a Rows buffer occupies positions r*nc+1 .. r*nc+nc.            *)
(***************************************************************************)
EXTENDS Integers, Sequences, FiniteSets, TLC

VARIABLES
    \* ---- DNF semiring driver
    dnf_a, dnf_b, dnf_c, dnf_l, dnf_r, dnf_op,
    \* ---- MapTable driver
    mt, tret,
    \* ---- Environment (interpret.rs)
    stmts, tables, interner, rules, pc, stmt_idx, answers, rule_idx,
    answer_idx, iter, hist, q_answer,
    \* ---- Interner driver
    intr, iret, seen,
    \* ---- SetTable driver
    st, sret,
    \* ---- check (ast.rs) driver
    c_stmt, c_ret,
    \* ---- query driver
    q_tabs, q_ret

dvars == <<dnf_a, dnf_b, dnf_c, dnf_l, dnf_r, dnf_op>>
tvars == <<mt, tret>>
ivars == <<stmts, tables, interner, rules, pc, stmt_idx, answers, rule_idx,
           answer_idx, iter, hist, q_answer>>
nvars == <<intr, iret, seen>>
svars == <<st, sret>>
cvars == <<c_stmt, c_ret>>
qvars == <<q_tabs, q_ret>>
\* The variables of the drivers of the interner, of SetTable, of check and of
\* query.
xvars == <<nvars, svars, cvars, qvars>>
vars == <<dvars, tvars, ivars, xvars>>

(***************************************************************************)
(* Bounds of the model.                                                    *)
(***************************************************************************)
NumLeaves == 3      \* leaves of the DNF driver
LawLeaves == 2      \* leaves of the DNF driver on three values
MaxRows == 4        \* rows appended by the MapTable driver
MaxRules == 2       \* rules of a generated program
RowCap == 8         \* rows a data table of the Environment may hold
HashMod == 2        \* width of the modelled hash (small, so that hashes collide)
MaxInterned == 3    \* distinct values the Interner driver interns
MaxSetRows == 4     \* rows appended by the SetTable driver
MaxQueryRows == 3   \* rows appended to the tables of the query driver
MaxCheckBody == 2   \* body atoms of a statement handed to check

Range(s) == {s[i] : i \in 1..Len(s)}

(***************************************************************************)
(* assumption.rs : LeafAssumption and DNFAssumption                        *)
(***************************************************************************)
LeafAssumption(relation, tuple) == [relation |-> relation, tuple |-> tuple]

zero == {}

one == {{}}

singleton(leaf) == {{leaf}}

\* The absorption pass without effect: what weak_simplify would be if the
\* removal were lost.
weak_simplify_noop(dnf) == dnf

\* to_remove collects every conj1 that is a superset of some conj2 of another
\* length; the value keeps the difference.
weak_simplify(dnf) ==
    LET to_remove == {conj1 \in dnf :
                        \E conj2 \in dnf :
                            conj2 \subseteq conj1
                            /\ Cardinality(conj1) # Cardinality(conj2)}
    IN  dnf \ to_remove

\* plus without the absorption pass.
plus_no_simplify(a, b) == a \cup b

plus(a, b) == weak_simplify(a \cup b)

\* times without the absorption pass.
times_no_simplify(a, b) ==
    {self_conj \cup other_conj : self_conj \in a, other_conj \in b}

times(a, b) ==
    weak_simplify({self_conj \cup other_conj : self_conj \in a, other_conj \in b})

\* discharge dropping the conjuncts that hold the label instead of removing
\* the label from them.
discharge_drop_conj(a, label) ==
    weak_simplify({self_conj \in a : label \notin self_conj})

discharge(a, label) ==
    weak_simplify({self_conj \ {label} : self_conj \in a})

\* Absorbed form: no conjunct is a strict superset of another one.
IsAbsorbed(dnf) ==
    \A c1 \in dnf : \A c2 \in dnf : ~(c2 \subseteq c1 /\ c2 # c1)

(***************************************************************************)
(* representation.rs : DNFAssumption::delta.  The zero, one, singleton,    *)
(* plus, times and discharge of representation.rs are those of             *)
(* assumption.rs line for line; delta exists in representation.rs only.    *)
(***************************************************************************)
\* A delta that drops the conjuncts contained in a conjunct of self.
delta_subset(a, other) ==
    {other_conj \in other : \A self_conj \in a : ~(other_conj \subseteq self_conj)}

delta(a, other) ==
    {other_conj \in other : \A self_conj \in a : ~(self_conj \subseteq other_conj)}

(***************************************************************************)
(* interner.rs : Interner<T>                                               *)
(***************************************************************************)
Interner_new == [obj_to_id |-> <<>>, id_to_obj |-> <<>>]

\* obj_to_id is kept as a function from interned objects to ids.
Interner_has(in, t) == t \in DOMAIN in.obj_to_id

\* The id intern() returns.
intern_id(in, t) ==
    IF Interner_has(in, t) THEN in.obj_to_id[t] ELSE Len(in.id_to_obj)

\* intern without the lookup: the value is pushed again under a new id.
intern_always_push(in, t) ==
    [obj_to_id |-> [o \in DOMAIN in.obj_to_id \cup {t} |->
                        IF o = t THEN Len(in.id_to_obj) ELSE in.obj_to_id[o]],
     id_to_obj |-> Append(in.id_to_obj, t)]

\* The interner after intern().
intern(in, t) ==
    IF Interner_has(in, t) THEN in
    ELSE [obj_to_id |-> [o \in DOMAIN in.obj_to_id \cup {t} |->
                            IF o = t THEN Len(in.id_to_obj)
                            ELSE in.obj_to_id[o]],
          id_to_obj |-> Append(in.id_to_obj, t)]

Interner_get(in, id) == in.id_to_obj[id + 1]

(***************************************************************************)
(* table.rs : hash, Rows                                                   *)
(***************************************************************************)
RECURSIVE hash_from(_, _, _)
hash_from(determinant, i, h) ==
    IF i > Len(determinant) THEN h
    ELSE hash_from(determinant, i + 1, (h * 5 + determinant[i] + 1) % HashMod)

\* FxHasher folds the cells of the determinant, in order, into one word.  The
\* model keeps the fold but narrows the word to HashMod values, so that
\* distinct determinants do collide.
hash(determinant) == hash_from(determinant, 1, 0)

Rows_new(num_columns) ==
    [buffer |-> <<>>, num_columns |-> num_columns, num_rows |-> 0]

get_row(rows, row) ==
    SubSeq(rows.buffer, row * rows.num_columns + 1,
           row * rows.num_columns + rows.num_columns)

add_row(rows, row) ==
    [rows EXCEPT !.buffer = rows.buffer \o row, !.num_rows = rows.num_rows + 1]

alloc_row(rows) ==
    [rows EXCEPT !.buffer = rows.buffer \o [i \in 1..rows.num_columns |-> 0],
                 !.num_rows = rows.num_rows + 1]

(***************************************************************************)
(* table.rs : MapTable                                                     *)
(***************************************************************************)
TableEntry(h, row) == [hash |-> h, row |-> row]

MapTable_new(num_determinant) ==
    [rows |-> Rows_new(num_determinant + 1),
     table |-> {},
     deleted_rows |-> {},
     delta |-> 0]

num_determinant(t) == t.rows.num_columns - 1

reset_delta(t) == [t EXCEPT !.delta = 0]

mark_delta(t) == [t EXCEPT !.delta = t.rows.num_rows]

changed(t) == t.delta # t.rows.num_rows

\* The bitwise or of two 2-bit cells (a set union on bit sets).
BitOr(a, b) ==
    (IF a % 2 = 1 \/ b % 2 = 1 THEN 1 ELSE 0)
    + 2 * (IF (a \div 2) % 2 = 1 \/ (b \div 2) % 2 = 1 THEN 1 ELSE 0)

\* The merge closures handed to insert, as data.  "old", "new" and "or" work
\* on raw cells; "plus" is the closure of interpret.rs, which reads both
\* interned values and interns their sum.
\* A merge closure that hands back the stored cell whatever is offered.
apply_merge_keep_old(m, a, b) == a

apply_merge(m, a, b) ==
    CASE m.kind = "old" -> a
      [] m.kind = "new" -> b
      [] m.kind = "or" -> BitOr(a, b)
      [] m.kind = "plus" ->
            intern_id(m.interner,
                      plus(Interner_get(m.interner, a), Interner_get(m.interner, b)))

\* The index entries the probe of insert and get accepts for a determinant.
MapTable_find(t, determinant) ==
    {te \in t.table :
        te.hash = hash(determinant)
        /\ SubSeq(get_row(t.rows, te.row), 1, num_determinant(t)) = determinant}

\* insert without the merged == old early return.
MapTable_insert_always_append(t, row, merge) ==
    LET nd == num_determinant(t)
        occ == MapTable_find(t, SubSeq(row, 1, nd))
        row_id == t.rows.num_rows
        base == IF occ = {} THEN t
                ELSE LET te == CHOOSE e \in occ : TRUE
                     IN  [t EXCEPT !.table = t.table \ {te},
                                   !.deleted_rows = t.deleted_rows \cup {te.row}]
    IN  [t |-> [base EXCEPT !.rows = add_row(t.rows, row),
                            !.table = base.table
                                \cup {TableEntry(hash(SubSeq(row, 1, nd)), row_id)}],
         row_id |-> row_id,
         row |-> row,
         occupied |-> occ # {}]

\* insert that appends the replacement row without tombstoning the old one.
MapTable_insert_no_tombstone(t, row, merge) ==
    LET nd == num_determinant(t)
        occ == MapTable_find(t, SubSeq(row, 1, nd))
        row_id == t.rows.num_rows
    IN  IF occ # {}
           /\ LET te == CHOOSE e \in occ : TRUE
              IN  apply_merge(merge, get_row(t.rows, te.row)[nd + 1], row[nd + 1])
                    = get_row(t.rows, te.row)[nd + 1]
        THEN LET te == CHOOSE e \in occ : TRUE
             IN  [t |-> t, row_id |-> te.row, row |-> get_row(t.rows, te.row),
                  occupied |-> TRUE]
        ELSE [t |-> [t EXCEPT !.rows = add_row(t.rows, row),
                              !.table = t.table
                                \cup {TableEntry(hash(SubSeq(row, 1, nd)), row_id)}],
              row_id |-> row_id,
              row |-> row,
              occupied |-> occ # {}]

\* MapTable::insert.  Returns the table after the call, the row slice and row
\* id handed back, and whether the probe found an entry (the merge closure
\* ran).  The appended row is the argument row, unchanged.
MapTable_insert(t, row, merge) ==
    LET nd == num_determinant(t)
        determinant == SubSeq(row, 1, nd)
        occ == MapTable_find(t, determinant)
    IN  IF occ # {}
        THEN LET te == CHOOSE e \in occ : TRUE
                 row_id == te.row
                 old == get_row(t.rows, row_id)[nd + 1]
                 new == row[nd + 1]
                 merged == apply_merge(merge, old, new)
             IN  IF merged = old
                 THEN [t |-> t, row_id |-> row_id,
                       row |-> get_row(t.rows, row_id), occupied |-> TRUE]
                 ELSE LET new_id == t.rows.num_rows
                      IN  [t |-> [t EXCEPT
                                    !.rows = add_row(t.rows, row),
                                    !.table = (t.table \ {te})
                                        \cup {TableEntry(hash(determinant), new_id)},
                                    !.deleted_rows = t.deleted_rows \cup {row_id}],
                           row_id |-> new_id, row |-> row, occupied |-> TRUE]
        ELSE LET new_id == t.rows.num_rows
             IN  [t |-> [t EXCEPT
                           !.rows = add_row(t.rows, row),
                           !.table = t.table
                                \cup {TableEntry(hash(determinant), new_id)}],
                  row_id |-> new_id, row |-> row, occupied |-> FALSE]

\* MapTable::get: None, or the value cell and row id of the entry found.
MapTable_get(t, determinant) ==
    LET occ == MapTable_find(t, determinant)
    IN  IF occ = {} THEN [found |-> FALSE]
        ELSE LET te == CHOOSE e \in occ : TRUE
             IN  [found |-> TRUE,
                  value |-> get_row(t.rows, te.row)[num_determinant(t) + 1],
                  row_id |-> te.row]

MapTable_index(t, row) == get_row(t.rows, row)

\* The probe of delete matching the entry by the determinant of the row
\* instead of its id.
MapTable_delete_find_by_determinant(t, row_id) ==
    MapTable_find(t, SubSeq(get_row(t.rows, row_id), 1, num_determinant(t)))

\* The entries the probe of delete accepts: matched by row id.
MapTable_delete_find(t, row_id) ==
    {te \in t.table :
        te.hash = hash(SubSeq(get_row(t.rows, row_id), 1, num_determinant(t)))
        /\ te.row = row_id}

\* delete panics (get_row's assert, or the vacant entry) exactly when this
\* is false.
MapTable_delete_ok(t, row_id) ==
    row_id < t.rows.num_rows /\ MapTable_delete_find(t, row_id) # {}

MapTable_delete(t, row_id) ==
    [t EXCEPT !.table = t.table \ MapTable_delete_find(t, row_id),
              !.deleted_rows = t.deleted_rows \cup {row_id}]

MapTable_num_rows(t) == t.rows.num_rows - Cardinality(t.deleted_rows)

(***************************************************************************)
(* table.rs : SetTable                                                     *)
(***************************************************************************)
SetTable_new(num_columns) ==
    [rows |-> Rows_new(num_columns),
     table |-> {},
     deleted_rows |-> {},
     delta |-> 0]

SetTable_num_columns(t) == t.rows.num_columns

SetTable_reset_delta(t) == [t EXCEPT !.delta = 0]

SetTable_mark_delta(t) == [t EXCEPT !.delta = t.rows.num_rows]

SetTable_changed(t) == t.delta # t.rows.num_rows

\* The index entries the probe of insert and get accepts for a row.
SetTable_find(t, row) ==
    {te \in t.table : te.hash = hash(row) /\ get_row(t.rows, te.row) = row}

\* insert that never looks the row up.
SetTable_insert_always_append(t, row) ==
    [t |-> [t EXCEPT !.rows = add_row(t.rows, row),
                     !.table = t.table \cup {TableEntry(hash(row), t.rows.num_rows)}],
     row_id |-> t.rows.num_rows]

\* SetTable::insert: the table after the call and the row id returned.
SetTable_insert(t, row) ==
    LET occ == SetTable_find(t, row)
    IN  IF occ # {}
        THEN [t |-> t, row_id |-> (CHOOSE e \in occ : TRUE).row]
        ELSE [t |-> [t EXCEPT
                       !.rows = add_row(t.rows, row),
                       !.table = t.table
                            \cup {TableEntry(hash(row), t.rows.num_rows)}],
              row_id |-> t.rows.num_rows]

\* SetTable::get: None, or the row id of the entry found.
SetTable_get(t, row) ==
    LET occ == SetTable_find(t, row)
    IN  IF occ = {} THEN [found |-> FALSE, row_id |-> 0]
        ELSE [found |-> TRUE, row_id |-> (CHOOSE e \in occ : TRUE).row]

SetTable_index(t, row) == get_row(t.rows, row)

\* The entries the probe of delete accepts: matched by row id.
SetTable_delete_find(t, row_id) ==
    {te \in t.table : te.hash = hash(get_row(t.rows, row_id)) /\ te.row = row_id}

\* delete panics (get_row's assert, or the vacant entry) exactly when this
\* is false.
SetTable_delete_ok(t, row_id) ==
    row_id < t.rows.num_rows /\ SetTable_delete_find(t, row_id) # {}

SetTable_delete(t, row_id) ==
    [t EXCEPT !.table = t.table \ SetTable_delete_find(t, row_id),
              !.deleted_rows = t.deleted_rows \cup {row_id}]

SetTable_num_rows(t) == t.rows.num_rows - Cardinality(t.deleted_rows)

(***************************************************************************)
(* table.rs : MapTableRows, the iterator behind rows()                     *)
(***************************************************************************)
\* The order in which a BTreeSet of row ids is iterated: ascending.
SortedSeq(S) ==
    [i \in 1..Cardinality(S) |->
        CHOOSE x \in S : Cardinality({y \in S : y < x}) = i - 1]

\* The loop with the comparison slipped: a tombstone equal to the row ends
\* the loop instead of advancing the row.
RECURSIVE MapTableRows_skip_ge(_, _, _)
MapTableRows_skip_ge(deleted, row, pos) ==
    IF pos > Len(deleted) THEN [row |-> row, pos |-> pos]
    ELSE IF deleted[pos] >= row THEN [row |-> row, pos |-> pos]
    ELSE MapTableRows_skip_ge(deleted, row, pos + 1)

\* The while-let loop of next(): row is the iterator's row, pos the position
\* of deleted_iter in the ordered tombstone set.
RECURSIVE MapTableRows_skip(_, _, _)
MapTableRows_skip(deleted, row, pos) ==
    IF pos > Len(deleted) THEN [row |-> row, pos |-> pos]
    ELSE IF deleted[pos] > row THEN [row |-> row, pos |-> pos]
    ELSE IF deleted[pos] = row THEN MapTableRows_skip(deleted, row + 1, pos + 1)
    ELSE MapTableRows_skip(deleted, row, pos + 1)

\* All the ids next() yields until it returns None, in order.  (s is the
\* iterator after the while-let loop of one call.)
RECURSIVE MapTableRows_collect(_, _, _, _)
MapTableRows_collect(t, deleted, row, pos) ==
    CHOOSE yielded \in
        { IF s.row >= t.rows.num_rows THEN <<>>
          ELSE <<s.row>> \o MapTableRows_collect(t, deleted, s.row + 1, s.pos) :
          s \in {MapTableRows_skip(deleted, row, pos)} } : TRUE

\* MapTable::rows(after_delta), drained: the sequence of row ids yielded.
MapTable_rows(t, after_delta) ==
    MapTableRows_collect(t, SortedSeq(t.deleted_rows),
                         IF after_delta THEN t.delta ELSE 0, 1)

(***************************************************************************)
(* A driver of one MapTable with one determinant column: any sequence of   *)
(* insert, get, delete, mark_delta, reset_delta and rows calls.  tret      *)
(* records the last call: its arguments, the table before it (pre) and     *)
(* what it returned.  A panic ends the driver.  The two keys collide under *)
(* the modelled hash.                                                      *)
(***************************************************************************)
Keys == {0, 2}
Vals == {1, 2}
MergeKinds == {"old", "new", "or"}

TRet(op, pre, key, val, merge, flag, row_id, row, res, yielded) ==
    [op |-> op, pre |-> pre, key |-> key, val |-> val, merge |-> merge,
     after_delta |-> flag, row_id |-> row_id, row |-> row, res |-> res,
     yielded |-> yielded]

NoGet == [found |-> FALSE]

TInit ==
    /\ mt = MapTable_new(1)
    /\ tret = TRet("new", MapTable_new(1), 0, 0, "old", FALSE, 0, <<>>, NoGet, <<>>)

TRunning == tret.op \notin {"idle", "panic"}

TInsert ==
    /\ UNCHANGED <<dvars, ivars, xvars>>
    /\ TRunning
    /\ mt.rows.num_rows < MaxRows
    /\ \E k \in Keys, v \in Vals, m \in MergeKinds :
        LET r == MapTable_insert(mt, <<k, v>>, [kind |-> m])
        IN  /\ mt' = r.t
            /\ tret' = TRet("insert", mt, k, v, m, FALSE, r.row_id, r.row,
                            NoGet, <<>>)

TGet ==
    /\ UNCHANGED <<dvars, ivars, xvars>>
    /\ TRunning
    /\ \E k \in Keys :
        /\ tret' = TRet("get", mt, k, 0, "old", FALSE, 0, <<>>,
                        MapTable_get(mt, <<k>>), <<>>)
        /\ mt' = mt

\* delete of any id up to one past the row count; a call the source panics
\* on leaves the table as it was and ends the driver.
TDelete ==
    /\ UNCHANGED <<dvars, ivars, xvars>>
    /\ TRunning
    /\ \E id \in 0..mt.rows.num_rows :
        IF MapTable_delete_ok(mt, id)
        THEN /\ mt' = MapTable_delete(mt, id)
             /\ tret' = TRet("delete", mt, 0, 0, "old", FALSE, id,
                             get_row(mt.rows, id), NoGet, <<>>)
        ELSE /\ mt' = mt
             /\ tret' = TRet("panic", mt, 0, 0, "old", FALSE, id, <<>>,
                             NoGet, <<>>)

TMarkDelta ==
    /\ UNCHANGED <<dvars, ivars, xvars>>
    /\ TRunning
    /\ mt' = mark_delta(mt)
    /\ tret' = TRet("mark_delta", mt, 0, 0, "old", FALSE, 0, <<>>, NoGet, <<>>)

TResetDelta ==
    /\ UNCHANGED <<dvars, ivars, xvars>>
    /\ TRunning
    /\ mt' = reset_delta(mt)
    /\ tret' = TRet("reset_delta", mt, 0, 0, "old", FALSE, 0, <<>>, NoGet, <<>>)

TRows ==
    /\ UNCHANGED <<dvars, ivars, xvars>>
    /\ TRunning
    /\ \E after_delta \in BOOLEAN :
        /\ tret' = TRet("rows", mt, 0, 0, "old", after_delta, 0, <<>>, NoGet,
                        MapTable_rows(mt, after_delta))
        /\ mt' = mt

TNext ==
    \/ TInsert
    \/ TGet
    \/ TDelete
    \/ TMarkDelta
    \/ TResetDelta
    \/ TRows

(***************************************************************************)
(* A driver of the DNF operations: dnf_a and dnf_b range over the absorbed *)
(* values over NumLeaves leaves, dnf_l over the leaves; a step applies one *)
(* operation and records its result in dnf_r, or feeds dnf_r back as dnf_a.*)
(* dnf_c is a third value, drawn by the driver on three values (over       *)
(* LawLeaves leaves) and left alone by every operation.                    *)
(***************************************************************************)
LeafUniverse == {LeafAssumption("A", i) : i \in 0..(NumLeaves - 1)}

AbsorbedDNFs == {d \in SUBSET SUBSET LeafUniverse : IsAbsorbed(d)}

DInit ==
    /\ dnf_a \in AbsorbedDNFs
    /\ dnf_b \in AbsorbedDNFs
    /\ dnf_c = zero
    /\ dnf_l \in LeafUniverse
    /\ dnf_r = zero
    /\ dnf_op = "init"

DZero ==
    /\ UNCHANGED <<tvars, ivars, xvars, dnf_a, dnf_b, dnf_c, dnf_l>>
    /\ dnf_r' = zero
    /\ dnf_op' = "zero"

DOne ==
    /\ UNCHANGED <<tvars, ivars, xvars, dnf_a, dnf_b, dnf_c, dnf_l>>
    /\ dnf_r' = one
    /\ dnf_op' = "one"

DSingleton ==
    /\ UNCHANGED <<tvars, ivars, xvars, dnf_a, dnf_b, dnf_c, dnf_l>>
    /\ dnf_r' = singleton(dnf_l)
    /\ dnf_op' = "singleton"

DPlus ==
    /\ UNCHANGED <<tvars, ivars, xvars, dnf_a, dnf_b, dnf_c, dnf_l>>
    /\ dnf_r' = plus(dnf_a, dnf_b)
    /\ dnf_op' = "plus"

DTimes ==
    /\ UNCHANGED <<tvars, ivars, xvars, dnf_a, dnf_b, dnf_c, dnf_l>>
    /\ dnf_r' = times(dnf_a, dnf_b)
    /\ dnf_op' = "times"

DDischarge ==
    /\ UNCHANGED <<tvars, ivars, xvars, dnf_a, dnf_b, dnf_c, dnf_l>>
    /\ dnf_r' = discharge(dnf_a, dnf_l)
    /\ dnf_op' = "discharge"

\* The driver on three values.
LawUniverse == {LeafAssumption("A", i) : i \in 0..(LawLeaves - 1)}

LawDNFs == {d \in SUBSET SUBSET LawUniverse : IsAbsorbed(d)}

LawInit ==
    /\ dnf_a \in LawDNFs
    /\ dnf_b \in LawDNFs
    /\ dnf_c \in LawDNFs
    /\ dnf_l \in LawUniverse
    /\ dnf_r = zero
    /\ dnf_op = "init"

\* The last result becomes the first argument of the next operation.
DFeed ==
    /\ UNCHANGED <<tvars, ivars, xvars, dnf_b, dnf_c, dnf_l, dnf_r>>
    /\ dnf_op # "init"
    /\ dnf_a' = dnf_r
    /\ dnf_op' = "feed"

DNext ==
    \/ DFeed
    \/ DZero
    \/ DOne
    \/ DSingleton
    \/ DPlus
    \/ DTimes
    \/ DDischarge

\* The driver on three values with delta added to its operations.
DDelta ==
    /\ UNCHANGED <<tvars, ivars, xvars, dnf_a, dnf_b, dnf_c, dnf_l>>
    /\ dnf_r' = delta(dnf_a, dnf_b)
    /\ dnf_op' = "delta"

LawNext ==
    \/ DFeed
    \/ DZero
    \/ DOne
    \/ DSingleton
    \/ DPlus
    \/ DTimes
    \/ DDischarge
    \/ DDelta

(***************************************************************************)
(* A driver of one SetTable with one column: any sequence of insert, get,  *)
(* delete and mark_delta calls.  sret records the last call: the table     *)
(* before it (pre), the row or row id passed and the row id returned.  A   *)
(* panic ends the driver.  Cells 0 and 2 collide under the modelled hash.  *)
(***************************************************************************)
SetCells == {0, 1, 2}

SRet(op, pre, row, row_id, found) ==
    [op |-> op, pre |-> pre, row |-> row, row_id |-> row_id, found |-> found]

SInit ==
    /\ st = SetTable_new(1)
    /\ sret = SRet("new", SetTable_new(1), <<>>, 0, FALSE)

SRunning == sret.op \notin {"idle", "panic"}

SInsert ==
    /\ UNCHANGED <<dvars, tvars, ivars, nvars, cvars, qvars>>
    /\ SRunning
    /\ st.rows.num_rows < MaxSetRows
    /\ \E c \in SetCells :
        LET r == SetTable_insert(st, <<c>>)
        IN  /\ st' = r.t
            /\ sret' = SRet("insert", st, <<c>>, r.row_id, FALSE)

SGet ==
    /\ UNCHANGED <<dvars, tvars, ivars, nvars, cvars, qvars>>
    /\ SRunning
    /\ \E c \in SetCells :
        LET g == SetTable_get(st, <<c>>)
        IN  /\ sret' = SRet("get", st, <<c>>, g.row_id, g.found)
            /\ st' = st

\* delete of any id up to one past the row count; a call the source panics
\* on leaves the table as it was and ends the driver.
SDelete ==
    /\ UNCHANGED <<dvars, tvars, ivars, nvars, cvars, qvars>>
    /\ SRunning
    /\ \E id \in 0..st.rows.num_rows :
        IF SetTable_delete_ok(st, id)
        THEN /\ st' = SetTable_delete(st, id)
             /\ sret' = SRet("delete", st, get_row(st.rows, id), id, TRUE)
        ELSE /\ st' = st
             /\ sret' = SRet("panic", st, <<>>, id, FALSE)

SMarkDelta ==
    /\ UNCHANGED <<dvars, tvars, ivars, nvars, cvars, qvars>>
    /\ SRunning
    /\ st' = SetTable_mark_delta(st)
    /\ sret' = SRet("mark_delta", st, <<>>, 0, FALSE)

SNext ==
    \/ SInsert
    \/ SGet
    \/ SDelete
    \/ SMarkDelta

(***************************************************************************)
(* A driver of one Interner: any sequence of intern and get calls on the   *)
(* values zero, one and the singletons of LawLeaves leaves.  iret records  *)
(* the last call, seen the distinct values passed to intern so far, in the *)
(* order of their first call.                                              *)
(***************************************************************************)
InternValues == {zero, one} \cup {singleton(l) : l \in LawUniverse}

NInit ==
    /\ intr = Interner_new
    /\ iret = [op |-> "new", t |-> zero, id |-> 0]
    /\ seen = <<>>

NIntern ==
    /\ UNCHANGED <<dvars, tvars, ivars, svars, cvars, qvars>>
    /\ iret.op # "idle"
    /\ \E t \in InternValues :
        /\ t \in Range(seen) \/ Len(seen) < MaxInterned
        /\ intr' = intern(intr, t)
        /\ iret' = [op |-> "intern", t |-> t, id |-> intern_id(intr, t)]
        /\ seen' = IF t \in Range(seen) THEN seen ELSE Append(seen, t)

NGet ==
    /\ UNCHANGED <<dvars, tvars, ivars, svars, cvars, qvars>>
    /\ iret.op # "idle"
    /\ \E id \in 0..(Len(intr.id_to_obj) - 1) :
        /\ iret' = [op |-> "get", t |-> Interner_get(intr, id), id |-> id]
        /\ UNCHANGED <<intr, seen>>

NNext ==
    \/ NIntern
    \/ NGet

(***************************************************************************)
(* The AST interpret.rs consumes: statements are rules {head, speculate,   *)
(* body} or questions; a literal is {lhs, rhs}; a term is a variable or a  *)
(* constant.                                                               *)
(***************************************************************************)
Variable(symbol) == [kind |-> "var", symbol |-> symbol, value |-> 0]

Constant(value) == [kind |-> "const", symbol |-> "", value |-> value]

AtomAST(relation, terms) == [relation |-> relation, terms |-> terms]

LiteralAST(lhs, rhs) == [lhs |-> lhs, rhs |-> rhs]

RuleAST(head, speculate, body) ==
    [kind |-> "rule", head |-> head, speculate |-> speculate, body |-> body]

Question(body) ==
    [kind |-> "question", head |-> AtomAST("", <<>>), speculate |-> FALSE,
     body |-> body]

\* A plain body literal.
Lit(relation, terms) == LiteralAST(<<>>, AtomAST(relation, terms))

vx == Variable("x")
vy == Variable("y")
vz == Variable("z")

(***************************************************************************)
(* ast.rs : StatementAST, AtomAST, LiteralAST and check.  (The AST of      *)
(* ast.rs: an atom is a literal, a bracketed literal or an arrow of two    *)
(* literals; a literal is a relation with terms.)                          *)
(***************************************************************************)
ast_LiteralAST(relation, terms) == [relation |-> relation, terms |-> terms]

ast_Literal(lit) == [kind |-> "Literal", lit |-> lit, lit2 |-> lit]

ast_Brackets(lit) == [kind |-> "Brackets", lit |-> lit, lit2 |-> lit]

\* Arrow(lit, lit2): lit is the left-hand side, lit2 the right-hand side.
ast_Arrow(lit, lit2) == [kind |-> "Arrow", lit |-> lit, lit2 |-> lit2]

ast_Rule(head, body) == [kind |-> "Rule", head |-> head, body |-> body]

ast_Question(body) ==
    [kind |-> "Question", head |-> ast_Literal(ast_LiteralAST("", <<>>)),
     body |-> body]

\* StatementAST::head is Some exactly for a rule.
StatementAST_has_head(stmt) == stmt.kind = "Rule"

StatementAST_body(stmt) == stmt.body

\* LiteralAST::vars: the names of the variable terms (try_var drops the
\* constants).
LiteralAST_vars(lit) ==
    {lit.terms[i].symbol : i \in {j \in 1..Len(lit.terms) : lit.terms[j].kind = "var"}}

AtomAST_vars(atom) ==
    IF atom.kind = "Arrow"
    THEN LiteralAST_vars(atom.lit) \cup LiteralAST_vars(atom.lit2)
    ELSE LiteralAST_vars(atom.lit)

\* The range check() collects: the variables of the plain body literals and
\* of the right-hand sides of the body arrows.
check_range(stmt) ==
    UNION { IF StatementAST_body(stmt)[i].kind = "Literal"
            THEN LiteralAST_vars(StatementAST_body(stmt)[i].lit)
            ELSE IF StatementAST_body(stmt)[i].kind = "Arrow"
            THEN LiteralAST_vars(StatementAST_body(stmt)[i].lit2)
            ELSE {} : i \in 1..Len(StatementAST_body(stmt)) }

\* check without the second pass over the body (brackets and left-hand
\* sides of arrows).
check_head_only(stmt) ==
    IF StatementAST_has_head(stmt)
       /\ \E var \in AtomAST_vars(stmt.head) : var \notin check_range(stmt)
    THEN FALSE
    ELSE IF StatementAST_has_head(stmt) /\ stmt.head.kind = "Arrow"
    THEN FALSE
    ELSE TRUE

check(stmt) ==
    IF StatementAST_has_head(stmt)
       /\ \E var \in AtomAST_vars(stmt.head) : var \notin check_range(stmt)
    THEN FALSE
    ELSE IF \E i \in 1..Len(StatementAST_body(stmt)) :
                /\ StatementAST_body(stmt)[i].kind \in {"Brackets", "Arrow"}
                /\ \E var \in LiteralAST_vars(StatementAST_body(stmt)[i].lit) :
                        var \notin check_range(stmt)
    THEN FALSE
    ELSE IF StatementAST_has_head(stmt) /\ stmt.head.kind = "Arrow"
    THEN FALSE
    ELSE TRUE

(***************************************************************************)
(* A driver of check: one statement with up to MaxCheckBody body atoms     *)
(* over three literals, checked once.                                      *)
(***************************************************************************)
CheckLiterals ==
    { ast_LiteralAST("R", terms) :
        terms \in { <<Constant(1)>>, <<Variable("x")>>,
                    <<Variable("x"), Variable("y")>> } }

CheckAtoms ==
    {ast_Literal(lit) : lit \in CheckLiterals}
    \cup {ast_Brackets(lit) : lit \in CheckLiterals}
    \cup {ast_Arrow(lit, lit2) : lit \in CheckLiterals, lit2 \in CheckLiterals}

CInit ==
    /\ \E n \in 0..MaxCheckBody :
        \E body \in [1..n -> CheckAtoms] :
            \/ \E head \in CheckAtoms : c_stmt = ast_Rule(head, body)
            \/ c_stmt = ast_Question(body)
    /\ c_ret = [called |-> FALSE, value |-> FALSE, idle |-> FALSE]

CCheck ==
    /\ UNCHANGED <<dvars, tvars, ivars, nvars, svars, qvars>>
    /\ ~c_ret.idle
    /\ ~c_ret.called
    /\ c_ret' = [called |-> TRUE, value |-> check(c_stmt), idle |-> FALSE]
    /\ UNCHANGED c_stmt

CNext ==
    \/ CCheck

(***************************************************************************)
(* interpret.rs : register_table_for_atom, order, substitute_into_atom     *)
(***************************************************************************)
\* The atoms interpret() registers for a statement, in order.
RECURSIVE body_atoms(_)
body_atoms(body) ==
    IF body = <<>> THEN <<>>
    ELSE Head(body).lhs \o <<Head(body).rhs>> \o body_atoms(Tail(body))

stmt_atoms(stmt) ==
    IF stmt.kind = "rule" THEN <<stmt.head>> \o body_atoms(stmt.body)
    ELSE body_atoms(stmt.body)

\* register_table_for_atom's assert_eq fails.
register_panics(tabs, atom) ==
    atom.relation \in DOMAIN tabs
    /\ num_determinant(tabs[atom.relation]) # Len(atom.terms)

register_table_for_atom(tabs, atom) ==
    IF atom.relation \in DOMAIN tabs THEN tabs
    ELSE [r \in DOMAIN tabs \cup {atom.relation} |->
            IF r = atom.relation THEN MapTable_new(Len(atom.terms)) ELSE tabs[r]]

\* Registration of a sequence of atoms: the tables after it and whether an
\* assert failed on the way.
RECURSIVE register_atoms(_, _)
register_atoms(tabs, atoms) ==
    IF atoms = <<>> THEN [tables |-> tabs, panic |-> FALSE]
    ELSE IF register_panics(tabs, Head(atoms))
         THEN [tables |-> tabs, panic |-> TRUE]
         ELSE CHOOSE reg \in
                { register_atoms(registered, Tail(atoms)) :
                  registered \in {register_table_for_atom(tabs, Head(atoms))} } : TRUE

\* The variables of the rhs atoms of a body, in order of first occurrence.
RECURSIVE order_terms(_, _)
order_terms(terms, acc) ==
    IF terms = <<>> THEN acc
    ELSE LET term == Head(terms)
         IN  order_terms(Tail(terms),
                IF term.kind = "var" /\ term.symbol \notin Range(acc)
                THEN Append(acc, term.symbol) ELSE acc)

RECURSIVE order_from(_, _)
order_from(query, acc) ==
    IF query = <<>> THEN acc
    ELSE order_from(Tail(query), order_terms(Head(query).rhs.terms, acc))

order(query) == order_from(query, <<>>)

\* inv_order: the 0-based position of a variable in the order.
inv_order(ord, symbol) == (CHOOSE i \in 1..Len(ord) : ord[i] = symbol) - 1

\* The determinant cells substitute_into_atom writes for an atom.
substitute_into_atom(atom, answer, ord) ==
    [i \in 1..Len(atom.terms) |->
        IF atom.terms[i].kind = "var"
        THEN answer[inv_order(ord, atom.terms[i].symbol) + 1]
        ELSE atom.terms[i].value]

(***************************************************************************)
(* interpret.rs : query and query_helper                                   *)
(***************************************************************************)
\* A column loop that lets a repeated variable take the later cell.
RECURSIVE match_row_overwrite(_, _, _, _)
match_row_overwrite(terms, row, col_idx, assignment) ==
    IF col_idx > Len(terms) THEN [ok |-> TRUE, assignment |-> assignment]
    ELSE LET in_row == row[col_idx]
             term == terms[col_idx]
         IN  IF term.kind = "var"
             THEN match_row_overwrite(terms, row, col_idx + 1,
                    [v \in DOMAIN assignment \cup {term.symbol} |->
                        IF v = term.symbol THEN in_row ELSE assignment[v]])
             ELSE IF term.value # in_row
                  THEN [ok |-> FALSE, assignment |-> assignment]
                  ELSE match_row_overwrite(terms, row, col_idx + 1, assignment)

\* The column loop of query_helper on one table row: the assignment after
\* it, or a rejection (continue 'outer).
RECURSIVE match_row(_, _, _, _)
match_row(terms, row, col_idx, assignment) ==
    IF col_idx > Len(terms) THEN [ok |-> TRUE, assignment |-> assignment]
    ELSE LET in_row == row[col_idx]
             term == terms[col_idx]
         IN  IF term.kind = "var"
             THEN IF term.symbol \in DOMAIN assignment
                     /\ assignment[term.symbol] # in_row
                  THEN [ok |-> FALSE, assignment |-> assignment]
                  ELSE match_row(terms, row, col_idx + 1,
                        [v \in DOMAIN assignment \cup {term.symbol} |->
                            IF v = term.symbol THEN in_row ELSE assignment[v]])
             ELSE IF term.value # in_row
                  THEN [ok |-> FALSE, assignment |-> assignment]
                  ELSE match_row(terms, row, col_idx + 1, assignment)

\* The answer row written at the base case of query_helper: the assignment
\* in order, then the stacked provenance cells placed by semi_naive_shuffle.
answer_row(ord, num_columns, assignment, assumptions, semi_naive_shuffle) ==
    [c \in 1..num_columns |->
        IF c <= Len(ord) THEN assignment[ord[c]]
        ELSE LET k == c - 1 - Len(ord)
                 src == {idx \in 0..(Len(assumptions) - 1) :
                            \/ idx = 0 /\ k = semi_naive_shuffle
                            \/ idx >= 1 /\ idx <= semi_naive_shuffle /\ k = idx - 1
                            \/ idx >= 1 /\ idx > semi_naive_shuffle /\ k = idx}
             IN  IF src = {} THEN 0
                 ELSE assumptions[(CHOOSE idx \in src : TRUE) + 1]]

\* query_helper, as the sequence of answer rows it allocates and fills, in
\* order.  query_helper_rows is its for loop over rows(first) of the first
\* literal's table, from the i-th yielded id on.
RECURSIVE query_helper(_, _, _, _, _, _, _, _)
RECURSIVE query_helper_rows(_, _, _, _, _, _, _, _, _)
query_helper_rows(tabs, query, ord, num_columns, assignment, assumptions, semi_naive_shuffle, ids, i) ==
    IF i > Len(ids) THEN <<>>
    ELSE LET literal == Head(query)
             row == get_row(tabs[literal.rhs.relation].rows, ids[i])
         IN  (CHOOSE allocated \in
                { IF m.ok
                  THEN query_helper(tabs, Tail(query), ord, num_columns,
                                    m.assignment, Append(assumptions, row[Len(row)]),
                                    FALSE, semi_naive_shuffle)
                  ELSE <<>> :
                  m \in {match_row(literal.rhs.terms, row, 1, assignment)} } : TRUE)
             \o query_helper_rows(tabs, query, ord, num_columns, assignment,
                                  assumptions, semi_naive_shuffle, ids, i + 1)

query_helper(tabs, query, ord, num_columns, assignment, assumptions, first, semi_naive_shuffle) ==
    IF query = <<>>
    THEN <<answer_row(ord, num_columns, assignment, assumptions, semi_naive_shuffle)>>
    ELSE query_helper_rows(tabs, query, ord, num_columns, assignment, assumptions,
                           semi_naive_shuffle,
                           MapTable_rows(tabs[Head(query).rhs.relation], first), 1)

\* Vec::swap on a 0-based pair of positions.
swap(seq, i, j) ==
    [k \in 1..Len(seq) |->
        IF k = i + 1 THEN seq[j + 1] ELSE IF k = j + 1 THEN seq[i + 1] ELSE seq[k]]

\* The semi-naive loop of query anchoring position 0 only.
query_semi_naive_first_only(tabs, query, ord, num_columns, semi_naive_idx) ==
    IF semi_naive_idx >= 1 THEN <<>>
    ELSE query_helper(tabs, swap(query, 0, semi_naive_idx), ord, num_columns,
                      <<>>, <<>>, TRUE, semi_naive_idx)

\* The semi-naive loop of query from semi_naive_idx on: one pass per
\* anchored position, each appending its answer rows.
RECURSIVE query_semi_naive(_, _, _, _, _)
query_semi_naive(tabs, query, ord, num_columns, semi_naive_idx) ==
    IF semi_naive_idx >= Len(query) THEN <<>>
    ELSE query_helper(tabs, swap(query, 0, semi_naive_idx), ord, num_columns,
                      <<>>, <<>>, TRUE, semi_naive_idx)
         \o query_semi_naive(tabs, query, ord, num_columns, semi_naive_idx + 1)

\* The Rows holding a sequence of rows of num_columns cells each.
Rows_of(num_columns, list) ==
    [buffer |-> [k \in 1..(Len(list) * num_columns) |->
                    list[((k - 1) \div num_columns) + 1][((k - 1) % num_columns) + 1]],
     num_columns |-> num_columns,
     num_rows |-> Len(list)]

\* A query that takes the semi-naive arm for an empty body too.
query_no_empty_check(tabs, q, ord, semi_naive) ==
    CHOOSE rows \in
        { Rows_of(Len(ord) + Len(q), list) :
          list \in { IF semi_naive
                     THEN query_semi_naive(tabs, q, ord, Len(ord) + Len(q), 0)
                     ELSE query_helper(tabs, q, ord, Len(ord) + Len(q), <<>>, <<>>,
                                       FALSE, 0) } } : TRUE

query(tabs, q, ord, semi_naive) ==
    CHOOSE rows \in
        { Rows_of(Len(ord) + Len(q), list) :
          list \in { IF semi_naive /\ q # <<>>
                     THEN query_semi_naive(tabs, q, ord, Len(ord) + Len(q), 0)
                     ELSE query_helper(tabs, q, ord, Len(ord) + Len(q), <<>>, <<>>,
                                       FALSE, 0) } } : TRUE

(***************************************************************************)
(* A driver of query: the tables of E (two determinant columns) and N (one *)
(* determinant column) under any sequence of inserts and mark_delta calls  *)
(* on all tables, ended by one query call on a body of QueryPool, which    *)
(* q_ret records.  Every inserted row carries a provenance cell of its     *)
(* own, the number of rows appended so far, and the merge is "new", so     *)
(* that a second insert of a determinant replaces its row and leaves a     *)
(* tombstone.                                                              *)
(***************************************************************************)
QueryCells == {1, 2}

QueryDeterminants ==
    [rel \in {"E", "N"} |->
        IF rel = "E" THEN {<<a, b>> : a \in QueryCells, b \in QueryCells}
        ELSE {<<a>> : a \in QueryCells}]

QueryPool ==
    { <<>>,
      <<Lit("E", <<vx, vx>>)>>,
      <<Lit("E", <<Constant(1), vy>>), Lit("N", <<vy>>)>>,
      <<Lit("E", <<vx, vy>>), Lit("E", <<vy, vz>>)>>,
      <<Lit("N", <<vx>>), Lit("N", <<vy>>), Lit("E", <<vx, vy>>)>> }

QInit ==
    /\ q_tabs = [rel \in {"E", "N"} |->
                    MapTable_new(IF rel = "E" THEN 2 ELSE 1)]
    /\ q_ret = [op |-> "new"]

QBuilding == q_ret.op = "new"

QInsert ==
    /\ UNCHANGED <<dvars, tvars, ivars, nvars, svars, cvars>>
    /\ QBuilding
    /\ q_tabs["E"].rows.num_rows + q_tabs["N"].rows.num_rows < MaxQueryRows
    /\ \E rel \in {"E", "N"} :
        \E determinant \in QueryDeterminants[rel] :
            q_tabs' = [q_tabs EXCEPT ![rel] =
                MapTable_insert(q_tabs[rel],
                    Append(determinant,
                           q_tabs["E"].rows.num_rows + q_tabs["N"].rows.num_rows),
                    [kind |-> "new"]).t]
    /\ UNCHANGED q_ret

QMarkDelta ==
    /\ UNCHANGED <<dvars, tvars, ivars, nvars, svars, cvars>>
    /\ QBuilding
    /\ q_tabs' = [rel \in DOMAIN q_tabs |-> mark_delta(q_tabs[rel])]
    /\ UNCHANGED q_ret

QQuery ==
    /\ UNCHANGED <<dvars, tvars, ivars, nvars, svars, cvars>>
    /\ QBuilding
    /\ \E q \in QueryPool, semi_naive \in BOOLEAN :
        q_ret' = [op |-> "query", query |-> q, semi_naive |-> semi_naive,
                  rows |-> query(q_tabs, q, order(q), semi_naive)]
    /\ UNCHANGED q_tabs

QNext ==
    \/ QInsert
    \/ QMarkDelta
    \/ QQuery

(***************************************************************************)
(* interpret.rs : get_body_assumption_for_answer and the head inserts      *)
(***************************************************************************)
\* DNFAssumption::quotient is called by get_body_assumption_for_answer with
\* a singleton divisor; it removes the divisor's leaves from every conjunct
\* and re-applies absorption (the discharge of the leaf).
quotient(a, b) == weak_simplify({conj \ (UNION b) : conj \in a})

\* The loop over the lhs atoms of one literal: each lhs tuple found in the
\* table of its relation has its leaf divided out of rhs_assumption.
RECURSIVE discharge_lhs(_, _, _, _, _)
discharge_lhs(tabs, lhs, answer, ord, rhs_assumption) ==
    IF lhs = <<>> THEN rhs_assumption
    ELSE LET lhs_atom == Head(lhs)
             found == MapTable_get(tabs[lhs_atom.relation],
                                   substitute_into_atom(lhs_atom, answer, ord))
         IN  discharge_lhs(tabs, Tail(lhs), answer, ord,
                IF found.found
                THEN quotient(rhs_assumption,
                        singleton(LeafAssumption(lhs_atom.relation, found.row_id)))
                ELSE rhs_assumption)

\* A loop over the body literals that adds the provenances up.
RECURSIVE body_assumption_from_plus(_, _, _, _, _, _, _)
body_assumption_from_plus(tabs, in, answer, body, ord, literal_idx, assumption) ==
    IF literal_idx >= Len(body) THEN assumption
    ELSE LET literal == body[literal_idx + 1]
             rhs_assumption ==
                discharge_lhs(tabs, literal.lhs, answer, ord,
                    Interner_get(in, answer[Len(ord) + literal_idx + 1]))
         IN  body_assumption_from_plus(tabs, in, answer, body, ord, literal_idx + 1,
                                       plus(assumption, rhs_assumption))

RECURSIVE body_assumption_from(_, _, _, _, _, _, _)
body_assumption_from(tabs, in, answer, body, ord, literal_idx, assumption) ==
    IF literal_idx >= Len(body) THEN assumption
    ELSE LET literal == body[literal_idx + 1]
             rhs_assumption ==
                discharge_lhs(tabs, literal.lhs, answer, ord,
                    Interner_get(in, answer[Len(ord) + literal_idx + 1]))
         IN  body_assumption_from(tabs, in, answer, body, ord, literal_idx + 1,
                                  times(assumption, rhs_assumption))

get_body_assumption_for_answer(tabs, in, answer, body, ord) ==
    body_assumption_from(tabs, in, answer, body, ord, 0, one)

\* The interner after the merge closure of interpret.rs ran on (a, b).
merge_interner(in, a, b) ==
    intern(in, plus(Interner_get(in, a), Interner_get(in, b)))

zero_id == 0

\* Environment::new: the interner holds zero, under zero_id.
Environment_interner == intern(Interner_new, zero)

\* The non-speculative branch of interpret_rules for one answer row: the
\* determinant gets the interned body_assumption.times(body_assumption) and
\* is inserted under the plus merge.
insert_head(tabs, in, relation, determinant, body_assumption) ==
    LET prov == times(body_assumption, body_assumption)
        cell == intern_id(in, prov)
        in1 == intern(in, prov)
        table == tabs[relation]
        old == MapTable_get(table, determinant)
        r == MapTable_insert(table, Append(determinant, cell),
                             [kind |-> "plus", interner |-> in1])
    IN  [tables |-> [tabs EXCEPT ![relation] = r.t],
         interner |-> IF r.occupied THEN merge_interner(in1, old.value, cell)
                      ELSE in1,
         row_id |-> r.row_id]

\* An insert_speculatively whose merge keeps the new cell.
insert_speculatively_overwrite(tabs, in, relation, determinant, body_assumption) ==
    LET table == tabs[relation]
        r == MapTable_insert(table, Append(determinant, zero_id), [kind |-> "new"])
        self_assumption ==
            times(singleton(LeafAssumption(relation, r.row_id)), body_assumption)
    IN  [tables |-> [tabs EXCEPT ![relation] = r.t],
         interner |-> intern(in, self_assumption),
         row_id |-> r.row_id,
         self_assumption |-> self_assumption]

\* insert_speculatively: the determinant is inserted with the zero_id cell;
\* the leaf of the returned row id times the body assumption is interned and
\* written to the scratch row, which no one reads afterwards.
insert_speculatively(tabs, in, relation, determinant, body_assumption) ==
    LET table == tabs[relation]
        old == MapTable_get(table, determinant)
        r == MapTable_insert(table, Append(determinant, zero_id),
                             [kind |-> "plus", interner |-> in])
        in1 == IF r.occupied THEN merge_interner(in, old.value, zero_id) ELSE in
        self_assumption ==
            times(singleton(LeafAssumption(relation, r.row_id)), body_assumption)
    IN  [tables |-> [tabs EXCEPT ![relation] = r.t],
         interner |-> intern(in1, self_assumption),
         row_id |-> r.row_id,
         self_assumption |-> self_assumption]

(***************************************************************************)
(* Programs.  The scenarios of the documentation, and every sequence of up *)
(* to MaxRules distinct rules of RulePool followed by one question, or by  *)
(* the same question twice.                                                *)
(***************************************************************************)
Fact(relation, values) ==
    RuleAST(AtomAST(relation, [i \in 1..Len(values) |-> Constant(values[i])]),
            FALSE, <<>>)

\* E(1,2). E(2,3). E(3,4). P(x,y) :- E(x,y). P(x,z) :- E(x,y), P(y,z). ? P(x,y).
ProgTransitiveClosure ==
    << Fact("E", <<1, 2>>), Fact("E", <<2, 3>>), Fact("E", <<3, 4>>),
       RuleAST(AtomAST("P", <<vx, vy>>), FALSE, <<Lit("E", <<vx, vy>>)>>),
       RuleAST(AtomAST("P", <<vx, vz>>), FALSE,
               <<Lit("E", <<vx, vy>>), Lit("P", <<vy, vz>>)>>),
       Question(<<Lit("P", <<vx, vy>>)>>) >>

\* [A()] :- . ? A().
ProgSpeculate ==
    << RuleAST(AtomAST("A", <<>>), TRUE, <<>>), Question(<<Lit("A", <<>>)>>) >>

\* [A()] :- . P() :- A(). G() :- A() -> P(). ? G().
ProgArrow ==
    << RuleAST(AtomAST("A", <<>>), TRUE, <<>>),
       RuleAST(AtomAST("P", <<>>), FALSE, <<Lit("A", <<>>)>>),
       RuleAST(AtomAST("G", <<>>), FALSE,
               <<LiteralAST(<<AtomAST("A", <<>>)>>, AtomAST("P", <<>>))>>),
       Question(<<Lit("G", <<>>)>>) >>

\* [A()] :- . [B()] :- . C() :- A(), B(). ? C().
ProgBoth ==
    << RuleAST(AtomAST("A", <<>>), TRUE, <<>>),
       RuleAST(AtomAST("B", <<>>), TRUE, <<>>),
       RuleAST(AtomAST("C", <<>>), FALSE, <<Lit("A", <<>>), Lit("B", <<>>)>>),
       Question(<<Lit("C", <<>>)>>) >>

\* [X(1,2)] :- . X(a,b) :- X(a,b). ? X(a,b).
ProgRecursiveSpeculation ==
    << RuleAST(AtomAST("X", <<Constant(1), Constant(2)>>), TRUE, <<>>),
       RuleAST(AtomAST("X", <<vx, vy>>), FALSE, <<Lit("X", <<vx, vy>>)>>),
       Question(<<Lit("X", <<vx, vy>>)>>) >>

\* A() :- . ? A(). [A()] :- . P() :- A(). ? P(). ? A().
ProgTwoQuestions ==
    << Fact("A", <<>>), Question(<<Lit("A", <<>>)>>),
       RuleAST(AtomAST("A", <<>>), TRUE, <<>>),
       RuleAST(AtomAST("P", <<>>), FALSE, <<Lit("A", <<>>)>>),
       Question(<<Lit("P", <<>>)>>), Question(<<Lit("A", <<>>)>>) >>

\* A() :- . A(1) :- . ? A().   (the second mention of A breaks the arity)
ProgArityMismatch ==
    << Fact("A", <<>>), Fact("A", <<1>>), Question(<<Lit("A", <<>>)>>) >>

\* A(1) :- . [B()] :- . ? A(x). ? B().
ProgFactsTwice ==
    << Fact("A", <<1>>), RuleAST(AtomAST("B", <<>>), TRUE, <<>>),
       Question(<<Lit("A", <<vx>>)>>), Question(<<Lit("B", <<>>)>>) >>

Scenarios ==
    { ProgTransitiveClosure, ProgSpeculate, ProgArrow, ProgBoth,
      ProgRecursiveSpeculation, ProgTwoQuestions, ProgArityMismatch,
      ProgFactsTwice }

RulePool ==
    << RuleAST(AtomAST("A", <<>>), TRUE, <<>>),
       Fact("A", <<>>),
       RuleAST(AtomAST("P", <<>>), FALSE, <<Lit("A", <<>>)>>),
       RuleAST(AtomAST("G", <<>>), FALSE,
               <<LiteralAST(<<AtomAST("A", <<>>)>>, AtomAST("P", <<>>))>>),
       RuleAST(AtomAST("A", <<>>), FALSE, <<Lit("P", <<>>)>>),
       RuleAST(AtomAST("P", <<>>), TRUE, <<>>),
       Fact("E", <<1, 2>>),
       RuleAST(AtomAST("E", <<vy, vx>>), TRUE, <<Lit("E", <<vx, vy>>)>>),
       RuleAST(AtomAST("T", <<vx, vy>>), FALSE, <<Lit("E", <<vx, vy>>)>>),
       RuleAST(AtomAST("T", <<vx, vz>>), FALSE,
               <<Lit("E", <<vx, vy>>), Lit("T", <<vy, vz>>)>>) >>

Generated ==
    UNION { { [i \in 1..(n + 1) |->
                IF i <= n THEN RulePool[sel[i]] ELSE Question(<<Lit("A", <<>>)>>)] :
              sel \in {f \in [1..n -> 1..Len(RulePool)] :
                         \A i, j \in 1..n : i # j => f[i] # f[j]} } :
            n \in 1..MaxRules }

\* The generated programs with their question asked a second time, so that
\* interpret_rules runs again on the same rule set.
Reruns == { Append(program, Question(<<Lit("A", <<>>)>>)) : program \in Generated }

Programs == Scenarios \cup Generated \cup Reruns

(***************************************************************************)
(* interpret.rs : Environment::interpret and interpret_rules, step by step *)
(*                                                                         *)
(* pc is the position in the code: "stmt" at the head of the statement     *)
(* loop, "reset" at the entry of interpret_rules, "query" at the head of   *)
(* the fixpoint loop, "mark" before the mark_delta loop, "insert" in the   *)
(* head-insertion loops (rule_idx, answer_idx), "question" before          *)
(* interpret_question, "done" after the last statement, "panic" after a    *)
(* failed assertion.  hist records the last head insert and, in minted,    *)
(* the leaves insert_speculatively has made so far, each with the tuple it *)
(* was made for, and, in born, the rows the head inserts appended (in      *)
(* appended, whether the last one appended a row); iter is                 *)
(* the number of the current fixpoint iteration; hist.start is the tables  *)
(* and the interner the phase under way started from.                      *)
(***************************************************************************)
NoHist ==
    [op |-> "none", relation |-> "", determinant |-> <<>>,
     body_assumption |-> zero, row_id |-> 0, self_assumption |-> zero,
     minted |-> {}, born |-> {}, appended |-> FALSE,
     start |-> [tables |-> <<>>, interner |-> Interner_new]]

IInit ==
    /\ stmts \in Programs
    /\ tables = <<>>
    /\ interner = Environment_interner
    /\ rules = <<>>
    /\ pc = "stmt"
    /\ stmt_idx = 0
    /\ answers = <<>>
    /\ rule_idx = 0
    /\ answer_idx = 0
    /\ iter = 0
    /\ hist = NoHist
    /\ q_answer = Rows_new(0)

StmtRule ==
    /\ UNCHANGED <<dvars, tvars, xvars>>
    /\ pc = "stmt"
    /\ stmt_idx < Len(stmts)
    /\ stmts[stmt_idx + 1].kind = "rule"
    /\ LET reg == register_atoms(tables, stmt_atoms(stmts[stmt_idx + 1]))
       IN  /\ tables' = reg.tables
           /\ IF reg.panic
              THEN pc' = "panic" /\ UNCHANGED <<rules, stmt_idx>>
              ELSE /\ rules' = Append(rules, stmts[stmt_idx + 1])
                   /\ stmt_idx' = stmt_idx + 1
                   /\ pc' = "stmt"
    /\ UNCHANGED <<stmts, interner, answers, rule_idx, answer_idx, iter, hist,
                   q_answer>>

StmtQuestion ==
    /\ UNCHANGED <<dvars, tvars, xvars>>
    /\ pc = "stmt"
    /\ stmt_idx < Len(stmts)
    /\ stmts[stmt_idx + 1].kind = "question"
    /\ LET reg == register_atoms(tables, stmt_atoms(stmts[stmt_idx + 1]))
       IN  /\ tables' = reg.tables
           /\ pc' = IF reg.panic THEN "panic" ELSE "reset"
    /\ UNCHANGED <<stmts, interner, rules, stmt_idx, answers, rule_idx,
                   answer_idx, iter, hist, q_answer>>

ResetDelta ==
    /\ UNCHANGED <<dvars, tvars, xvars>>
    /\ pc = "reset"
    /\ tables' = [r \in DOMAIN tables |-> reset_delta(tables[r])]
    /\ iter' = 0
    /\ pc' = "query"
    /\ hist' = [hist EXCEPT !.start = [tables |-> tables', interner |-> interner]]
    /\ UNCHANGED <<stmts, interner, rules, stmt_idx, answers, rule_idx,
                   answer_idx, q_answer>>

QueryRules ==
    /\ UNCHANGED <<dvars, tvars, xvars>>
    /\ pc = "query"
    /\ answers' = [i \in 1..Len(rules) |->
                     query(tables, rules[i].body, order(rules[i].body), TRUE)]
    /\ iter' = iter + 1
    /\ pc' = "mark"
    /\ UNCHANGED <<stmts, tables, interner, rules, stmt_idx, rule_idx,
                   answer_idx, hist, q_answer>>

\* A mark_delta loop that leaves every delta where it is.
MarkDelta_keep_delta ==
    /\ UNCHANGED <<dvars, tvars, xvars>>
    /\ pc = "mark"
    /\ tables' = tables
    /\ rule_idx' = 0
    /\ answer_idx' = 0
    /\ pc' = "insert"
    /\ UNCHANGED <<stmts, interner, rules, stmt_idx, answers, iter, hist,
                   q_answer>>

MarkDelta ==
    /\ UNCHANGED <<dvars, tvars, xvars>>
    /\ pc = "mark"
    /\ tables' = [r \in DOMAIN tables |-> mark_delta(tables[r])]
    /\ rule_idx' = 0
    /\ answer_idx' = 0
    /\ pc' = "insert"
    /\ UNCHANGED <<stmts, interner, rules, stmt_idx, answers, iter, hist,
                   q_answer>>

\* The answer row the insertion loops are at, and what is derived from it.
CurRule == rules[rule_idx + 1]
CurAnswer == get_row(answers[rule_idx + 1], answer_idx)
CurOrder == order(CurRule.body)
CurDeterminant == substitute_into_atom(CurRule.head, CurAnswer, CurOrder)
CurBodyAssumption ==
    get_body_assumption_for_answer(tables, interner, CurAnswer, CurRule.body,
                                   CurOrder)

AtAnswer ==
    /\ pc = "insert"
    /\ rule_idx < Len(rules)
    /\ answer_idx < answers[rule_idx + 1].num_rows
    /\ tables[CurRule.head.relation].rows.num_rows < RowCap

\* The row a head insert appended to the table of a relation, if any, with
\* the phase (the index of the question statement) and the iteration of the
\* fixpoint loop it was appended in.
Born(relation, after) ==
    IF after[relation].rows.num_rows > tables[relation].rows.num_rows
    THEN {[relation |-> relation, row_id |-> tables[relation].rows.num_rows,
           phase |-> stmt_idx, iter |-> iter]}
    ELSE {}

InsertHead ==
    /\ UNCHANGED <<dvars, tvars, xvars>>
    /\ AtAnswer
    /\ ~CurRule.speculate
    /\ \E determinant \in {CurDeterminant}, body_assumption \in {CurBodyAssumption} :
        \E r \in {insert_head(tables, interner, CurRule.head.relation,
                               determinant, body_assumption)} :
            /\ tables' = r.tables
            /\ interner' = r.interner
            /\ hist' = [op |-> "insert", relation |-> CurRule.head.relation,
                        determinant |-> determinant,
                        body_assumption |-> body_assumption,
                        row_id |-> r.row_id, self_assumption |-> zero,
                        minted |-> hist.minted,
                        born |-> hist.born \cup Born(CurRule.head.relation, r.tables),
                        appended |-> Born(CurRule.head.relation, r.tables) # {},
                        start |-> hist.start]
    /\ answer_idx' = answer_idx + 1
    /\ UNCHANGED <<stmts, rules, pc, stmt_idx, answers, rule_idx, iter, q_answer>>

InsertSpeculatively ==
    /\ UNCHANGED <<dvars, tvars, xvars>>
    /\ AtAnswer
    /\ CurRule.speculate
    /\ \E determinant \in {CurDeterminant}, body_assumption \in {CurBodyAssumption} :
        \E r \in {insert_speculatively(tables, interner, CurRule.head.relation,
                                        determinant, body_assumption)} :
            /\ tables' = r.tables
            /\ interner' = r.interner
            /\ hist' = [op |-> "speculate", relation |-> CurRule.head.relation,
                        determinant |-> determinant,
                        body_assumption |-> body_assumption,
                        row_id |-> r.row_id,
                        self_assumption |-> r.self_assumption,
                        minted |-> hist.minted
                            \cup {[relation |-> CurRule.head.relation,
                                   determinant |-> determinant,
                                   row_id |-> r.row_id]},
                        born |-> hist.born \cup Born(CurRule.head.relation, r.tables),
                        appended |-> Born(CurRule.head.relation, r.tables) # {},
                        start |-> hist.start]
    /\ answer_idx' = answer_idx + 1
    /\ UNCHANGED <<stmts, rules, pc, stmt_idx, answers, rule_idx, iter, q_answer>>

NextRule ==
    /\ UNCHANGED <<dvars, tvars, xvars>>
    /\ pc = "insert"
    /\ rule_idx < Len(rules)
    /\ answer_idx >= answers[rule_idx + 1].num_rows
    /\ rule_idx' = rule_idx + 1
    /\ answer_idx' = 0
    /\ UNCHANGED <<stmts, tables, interner, rules, pc, stmt_idx, answers, iter,
                   hist, q_answer>>

AnyChanged == \E r \in DOMAIN tables : changed(tables[r])

LoopAgain ==
    /\ UNCHANGED <<dvars, tvars, xvars>>
    /\ pc = "insert"
    /\ rule_idx = Len(rules)
    /\ AnyChanged
    /\ pc' = "query"
    /\ UNCHANGED <<stmts, tables, interner, rules, stmt_idx, answers, rule_idx,
                   answer_idx, iter, hist, q_answer>>

\* A loop that is left after any pass, whether or not a table changed.
ExitLoop_after_any_pass ==
    /\ UNCHANGED <<dvars, tvars, xvars>>
    /\ pc = "insert"
    /\ rule_idx = Len(rules)
    /\ pc' = "question"
    /\ UNCHANGED <<stmts, tables, interner, rules, stmt_idx, answers, rule_idx,
                   answer_idx, iter, hist, q_answer>>

ExitLoop ==
    /\ UNCHANGED <<dvars, tvars, xvars>>
    /\ pc = "insert"
    /\ rule_idx = Len(rules)
    /\ ~AnyChanged
    /\ pc' = "question"
    /\ UNCHANGED <<stmts, tables, interner, rules, stmt_idx, answers, rule_idx,
                   answer_idx, iter, hist, q_answer>>

\* The question arm of interpret emptying the rule buffer once answered.
InterpretQuestion_clear_rules ==
    /\ UNCHANGED <<dvars, tvars, xvars>>
    /\ pc = "question"
    /\ q_answer' = query(tables, stmts[stmt_idx + 1].body,
                         order(stmts[stmt_idx + 1].body), FALSE)
    /\ stmt_idx' = stmt_idx + 1
    /\ pc' = "stmt"
    /\ rules' = <<>>
    /\ UNCHANGED <<stmts, tables, interner, answers, rule_idx,
                   answer_idx, iter, hist>>

InterpretQuestion ==
    /\ UNCHANGED <<dvars, tvars, xvars>>
    /\ pc = "question"
    /\ q_answer' = query(tables, stmts[stmt_idx + 1].body,
                         order(stmts[stmt_idx + 1].body), FALSE)
    /\ stmt_idx' = stmt_idx + 1
    /\ pc' = "stmt"
    /\ UNCHANGED <<stmts, tables, interner, rules, answers, rule_idx,
                   answer_idx, iter, hist>>

Finish ==
    /\ UNCHANGED <<dvars, tvars, xvars>>
    /\ pc = "stmt"
    /\ stmt_idx = Len(stmts)
    /\ pc' = "done"
    /\ UNCHANGED <<stmts, tables, interner, rules, stmt_idx, answers, rule_idx,
                   answer_idx, iter, hist, q_answer>>

(***************************************************************************)
(* Specifications                                                          *)
(***************************************************************************)
DIdle ==
    /\ dnf_a = zero
    /\ dnf_b = zero
    /\ dnf_c = zero
    /\ dnf_l = LeafAssumption("A", 0)
    /\ dnf_r = zero
    /\ dnf_op = "idle"

TIdle ==
    /\ mt = MapTable_new(1)
    /\ tret = TRet("idle", MapTable_new(1), 0, 0, "old", FALSE, 0, <<>>, NoGet, <<>>)

IIdle ==
    /\ stmts = <<>>
    /\ tables = <<>>
    /\ interner = Environment_interner
    /\ rules = <<>>
    /\ pc = "idle"
    /\ stmt_idx = 0
    /\ answers = <<>>
    /\ rule_idx = 0
    /\ answer_idx = 0
    /\ iter = 0
    /\ hist = NoHist
    /\ q_answer = Rows_new(0)

\* The drivers of the interner, of SetTable and of check at rest.
NIdle ==
    /\ intr = Interner_new
    /\ iret = [op |-> "idle", t |-> zero, id |-> 0]
    /\ seen = <<>>

SIdle ==
    /\ st = SetTable_new(1)
    /\ sret = SRet("idle", SetTable_new(1), <<>>, 0, FALSE)

CIdle ==
    /\ c_stmt = ast_Question(<<>>)
    /\ c_ret = [called |-> FALSE, value |-> FALSE, idle |-> TRUE]

QIdle ==
    /\ q_tabs = <<>>
    /\ q_ret = [op |-> "idle"]

XIdle == NIdle /\ SIdle /\ CIdle /\ QIdle

Init == IInit /\ DIdle /\ TIdle /\ XIdle

Next ==
    \/ StmtRule
    \/ StmtQuestion
    \/ ResetDelta
    \/ QueryRules
    \/ MarkDelta
    \/ InsertHead
    \/ InsertSpeculatively
    \/ NextRule
    \/ LoopAgain
    \/ ExitLoop
    \/ InterpretQuestion
    \/ Finish

\* The evaluator of one program.
Spec == Init /\ [][Next]_vars

\* The evaluator is a tree of plain calls on one thread: a step that can be
\* taken is taken.
LiveSpec == Init /\ [][Next]_vars /\ WF_vars(Next)

TableInit == TInit /\ DIdle /\ IIdle /\ XIdle

\* One MapTable under any sequence of calls.
TableSpec == TableInit /\ [][TNext]_vars

DNFInit == DInit /\ TIdle /\ IIdle /\ XIdle

\* The DNF operations on absorbed values.
DNFSpec == DNFInit /\ [][DNext]_vars

DNFLawInit == LawInit /\ TIdle /\ IIdle /\ XIdle

\* The DNF operations on three absorbed values.
DNFLawSpec == DNFLawInit /\ [][LawNext]_vars

InternerInit == NInit /\ DIdle /\ TIdle /\ IIdle /\ SIdle /\ CIdle /\ QIdle

\* One Interner under any sequence of calls.
InternerSpec == InternerInit /\ [][NNext]_vars

TablesInit ==
    /\ (TInit /\ SIdle) \/ (TIdle /\ SInit)
    /\ DIdle /\ IIdle /\ NIdle /\ CIdle /\ QIdle

TablesNext ==
    \/ TInsert
    \/ TGet
    \/ TDelete
    \/ TMarkDelta
    \/ TResetDelta
    \/ TRows
    \/ SInsert
    \/ SGet
    \/ SDelete
    \/ SMarkDelta

\* One table, a MapTable or a SetTable, under any sequence of calls.
TablesSpec == TablesInit /\ [][TablesNext]_vars

CheckInit == CInit /\ DIdle /\ TIdle /\ IIdle /\ NIdle /\ SIdle /\ QIdle

\* check on one statement.
CheckSpec == CheckInit /\ [][CNext]_vars

SetTableInit == SInit /\ DIdle /\ TIdle /\ IIdle /\ NIdle /\ CIdle /\ QIdle

QueryInit == QInit /\ DIdle /\ TIdle /\ IIdle /\ NIdle /\ SIdle /\ CIdle

\* query over two tables under any sequence of inserts and mark_delta calls.
QuerySpec == QueryInit /\ [][QNext]_vars

\* One SetTable under any sequence of calls.
SetTableSpec == SetTableInit /\ [][SNext]_vars

(***************************************************************************)
(* Reading the tables                                                      *)
(***************************************************************************)
\* The live rows of a MapTable: in the index and not tombstoned.
LiveIds(t) == {te.row : te \in t.table} \ t.deleted_rows

Determinant(t, id) == SubSeq(get_row(t.rows, id), 1, num_determinant(t))

ValueCell(t, id) == get_row(t.rows, id)[num_determinant(t) + 1]

\* The (determinant, provenance) pairs rows(false) yields for a relation,
\* the provenance read through the interner.
LiveContent(relation) ==
    { <<Determinant(tables[relation], id),
        Interner_get(interner, ValueCell(tables[relation], id))>> :
      id \in Range(MapTable_rows(tables[relation], FALSE)) }

(***************************************************************************)
(* Claims                                                                  *)
(***************************************************************************)
\* C1: interpret_rules terminates: every entry into the fixpoint loop (pc =
\* "reset") is followed by its exit (pc = "question"), for every program of
\* the model, also when a tuple is derived by several rules or with
\* different provenance values.
C1_FixpointTerminates == (pc = "reset") ~> (pc = "question")

\* The fixpoint loop has exited after some tuple was derived with two
\* different provenance values (its first row was replaced).
C1_Witness ==
    /\ pc = "question"
    /\ \E r \in DOMAIN tables : tables[r].deleted_rows # {}

\* The live rows of the driver's table holding determinant <<k>>.
LiveRowsOf(t, k) == {id \in LiveIds(t) : Determinant(t, id) = <<k>>}

\* C2 (as claimed): after insert (k, v2) under merge m on a table whose live
\* row for k holds v1, there is exactly one live row for k, the value cell
\* returned by insert and by get(k) is m(v1, v2), and a row was appended and
\* the old one tombstoned iff m(v1, v2) # v1.
C2_MergedValueStored ==
    (tret.op = "insert" /\ MapTable_get(tret.pre, <<tret.key>>).found) =>
        LET old == MapTable_get(tret.pre, <<tret.key>>)
            merged == apply_merge([kind |-> tret.merge], old.value, tret.val)
            now == MapTable_get(mt, <<tret.key>>)
        IN  /\ Cardinality(LiveRowsOf(mt, tret.key)) = 1
            /\ tret.row[2] = merged
            /\ now.found /\ now.value = merged
            /\ (/\ mt.rows.num_rows = tret.pre.rows.num_rows + 1
                /\ old.row_id \in mt.deleted_rows) <=> (merged # old.value)

\* C3 (as claimed): after a speculative head insert with body provenance B
\* the live row of the tuple has a provenance that contains leaf * B, and at
\* the end of `[A()] :- . ? A().` the provenance of A() is the singleton of
\* its leaf.
C3_SpeculativeLeafStored ==
    /\ hist.op = "speculate" =>
        LET g == MapTable_get(tables[hist.relation], hist.determinant)
        IN  /\ g.found
            /\ plus(Interner_get(interner, g.value), hist.self_assumption)
                = Interner_get(interner, g.value)
    /\ (pc = "done" /\ stmts = ProgSpeculate) =>
        LiveContent("A") = {<< <<>>, singleton(LeafAssumption("A", 0)) >>}

TransitiveClosureRows ==
    { <<1, 2>>, <<2, 3>>, <<3, 4>>, <<1, 3>>, <<2, 4>>, <<1, 4>> }

\* C4: the transitive-closure program terminates, and at its end the live
\* rows of P are exactly the 6 tuples, each once and each with provenance
\* one; the question returns 6 rows.
C4_TransitiveClosure ==
    /\ [](stmts = ProgTransitiveClosure /\ pc = "done" =>
            /\ LiveContent("P") = {<<d, one>> : d \in TransitiveClosureRows}
            /\ Len(MapTable_rows(tables["P"], FALSE)) = 6
            /\ q_answer.num_rows = 6)
    /\ (stmts = ProgTransitiveClosure) ~> (pc = "done")

C4_Witness ==
    /\ stmts = ProgTransitiveClosure
    /\ pc = "done"
    /\ <<1, 4>> \in {c[1] : c \in LiveContent("P")}

\* C5 (as claimed): at the end of `[A()] :- . P() :- A(). G() :- A() -> P().
\* ? G().` the table of G holds exactly one live row, G(), with provenance
\* one.
C5_ArrowDischarges ==
    (pc = "done" /\ stmts = ProgArrow) =>
        /\ LiveContent("G") = {<< <<>>, one >>}
        /\ Len(MapTable_rows(tables["G"], FALSE)) = 1

\* C6: in every state of the table no two live rows have the same
\* determinant, and get(d) finds a row exactly when a live row with
\* determinant d exists, returning that row's id and value cell.
C6_DeterminantUnique ==
    \A k \in Keys :
        LET live == LiveRowsOf(mt, k)
            g == MapTable_get(mt, <<k>>)
        IN  /\ Cardinality(live) <= 1
            /\ g.found <=> live # {}
            /\ g.found => g.row_id \in live /\ g.value = ValueCell(mt, g.row_id)
            /\ (tret.op = "get" /\ tret.key = k) => tret.res = g

C6_Witness ==
    /\ tret.op = "get"
    /\ tret.res.found
    /\ mt.deleted_rows # {}
    /\ \E id \in mt.deleted_rows : Determinant(mt, id) = <<tret.key>>

\* C7: an insert of (k, v) for a live k holding old with merge(old, v) = old
\* returns the existing row id and leaves the table as it was: no row
\* appended, no tombstone, same delta and same changed().
C7_MergeToOldChangesNothing ==
    (/\ tret.op = "insert"
     /\ MapTable_get(tret.pre, <<tret.key>>).found
     /\ apply_merge([kind |-> tret.merge],
                    MapTable_get(tret.pre, <<tret.key>>).value, tret.val)
            = MapTable_get(tret.pre, <<tret.key>>).value) =>
        /\ tret.row_id = MapTable_get(tret.pre, <<tret.key>>).row_id
        /\ tret.row = get_row(tret.pre.rows, tret.row_id)
        /\ mt.rows = tret.pre.rows
        /\ mt.table = tret.pre.table
        /\ mt.deleted_rows = tret.pre.deleted_rows
        /\ mt.delta = tret.pre.delta
        /\ changed(mt) = changed(tret.pre)

\* The second insert of a key under the merge `old`, with another value.
C7_Witness ==
    /\ tret.op = "insert"
    /\ tret.merge = "old"
    /\ MapTable_get(tret.pre, <<tret.key>>).found
    /\ MapTable_get(tret.pre, <<tret.key>>).value # tret.val
    /\ mt.rows.num_rows = 1

\* C8: the tombstone set only grows, an insert never returns a tombstoned
\* id, and rows() never yields one, with either value of after_delta.
C8_IdsNeverReused ==
    /\ tret.pre.deleted_rows \subseteq mt.deleted_rows
    /\ tret.op = "insert" => tret.row_id \notin mt.deleted_rows
    /\ tret.op = "rows" => Range(tret.yielded) \cap mt.deleted_rows = {}

\* An insert of a determinant one of whose earlier rows is tombstoned.
C8_Witness ==
    /\ tret.op = "insert"
    /\ \E id \in tret.pre.deleted_rows : Determinant(mt, id) = <<tret.key>>
    /\ tret.row_id = tret.pre.rows.num_rows

\* C9: rows(after_delta) yields, in increasing order and each once, exactly
\* the ids of [start, num_rows) outside the tombstone set, start being delta
\* when after_delta and 0 otherwise.
C9_RowsYieldsLiveSince ==
    tret.op = "rows" =>
        LET start == IF tret.after_delta THEN mt.delta ELSE 0
        IN  /\ \A i \in 1..(Len(tret.yielded) - 1) :
                    tret.yielded[i] < tret.yielded[i + 1]
            /\ Range(tret.yielded)
                = {id \in start..(mt.rows.num_rows - 1) : id \notin mt.deleted_rows}

\* rows(true) with the row at delta and its successor both tombstoned, and a
\* live row after them.
C9_Witness ==
    /\ tret.op = "rows"
    /\ tret.after_delta
    /\ mt.delta > 0
    /\ {mt.delta, mt.delta + 1} \subseteq mt.deleted_rows
    /\ tret.yielded # <<>>

\* C10: every value returned by zero, one, singleton, plus, times and
\* discharge on absorbed arguments is absorbed.
C10_ResultsAbsorbed ==
    /\ IsAbsorbed(dnf_a) /\ IsAbsorbed(dnf_b)
    /\ dnf_op # "init" => IsAbsorbed(dnf_r)

\* A product in which absorption removed a conjunct.
C10_Witness ==
    /\ dnf_op = "times"
    /\ dnf_r = times(dnf_a, dnf_b)
    /\ ~IsAbsorbed({x \cup y : x \in dnf_a, y \in dnf_b})

\* C11: on absorbed values plus is commutative, associative and idempotent,
\* has zero as identity and absorbs products: a+b = b+a (also for the sum
\* the last plus call returned), (a+b)+c = a+(b+c), a+a = a, zero+a = a,
\* a + a*b = a.
C11_PlusLaws ==
    /\ plus(dnf_a, dnf_b) = plus(dnf_b, dnf_a)
    /\ dnf_op = "plus" => dnf_r = plus(dnf_b, dnf_a)
    /\ plus(plus(dnf_a, dnf_b), dnf_c) = plus(dnf_a, plus(dnf_b, dnf_c))
    /\ plus(dnf_a, dnf_a) = dnf_a
    /\ plus(zero, dnf_a) = dnf_a
    /\ plus(dnf_a, times(dnf_a, dnf_b)) = dnf_a

\* A sum in which absorption removed a conjunct, with a product a*b that is
\* neither a nor zero.
C11_Witness ==
    /\ dnf_op = "plus"
    /\ dnf_r = plus(dnf_a, dnf_b)
    /\ ~IsAbsorbed(dnf_a \cup dnf_b)
    /\ times(dnf_a, dnf_b) \notin {dnf_a, zero}
    /\ dnf_c \notin {zero, one}

\* C12: on absorbed values times is commutative, associative and idempotent,
\* has one as identity and zero as annihilator: a*b = b*a (also for the
\* product the last times call returned), (a*b)*c = a*(b*c), a*a = a,
\* one*a = a, zero*a = zero.
C12_TimesLaws ==
    /\ times(dnf_a, dnf_b) = times(dnf_b, dnf_a)
    /\ dnf_op = "times" => dnf_r = times(dnf_b, dnf_a)
    /\ times(times(dnf_a, dnf_b), dnf_c) = times(dnf_a, times(dnf_b, dnf_c))
    /\ times(dnf_a, dnf_a) = dnf_a
    /\ times(one, dnf_a) = dnf_a
    /\ times(zero, dnf_a) = zero

\* A product of two different values in which absorption removed a
\* conjunct, with a third value that is neither zero nor one.
C12_Witness ==
    /\ dnf_op = "times"
    /\ dnf_r = times(dnf_a, dnf_b)
    /\ Cardinality(dnf_a) = 2
    /\ dnf_a # dnf_b
    /\ ~IsAbsorbed(times_no_simplify(dnf_a, dnf_b))
    /\ dnf_c \notin {zero, one}

\* C13: times distributes over plus on absorbed values: a*(b+c) is the same
\* value as a*b + a*c, also when a*b is the product the last times call
\* returned.
C13_Distributivity ==
    /\ times(dnf_a, plus(dnf_b, dnf_c))
        = plus(times(dnf_a, dnf_b), times(dnf_a, dnf_c))
    /\ dnf_op = "times" =>
        times(dnf_a, plus(dnf_b, dnf_c)) = plus(dnf_r, times(dnf_a, dnf_c))

\* A product a*b recorded, with b + c losing a conjunct to absorption and a
\* of two conjuncts.
C13_Witness ==
    /\ dnf_op = "times"
    /\ dnf_r = times(dnf_a, dnf_b)
    /\ ~IsAbsorbed(dnf_b \cup dnf_c)
    /\ Cardinality(dnf_a) = 2

\* The leaves occurring in a value.
LeavesOf(dnf) == UNION dnf

\* C14: discharge(singleton(l), l) = one; discharge(a, l) = a when l occurs
\* in no conjunct of a; discharge(singleton(m) * singleton(l), l) =
\* singleton(m) for another leaf m.  Stated of the value the last discharge
\* call returned and of every leaf.
C14_DischargeLaws ==
    /\ dnf_op = "discharge" =>
        /\ dnf_a = singleton(dnf_l) => dnf_r = one
        /\ dnf_l \notin LeavesOf(dnf_a) => dnf_r = dnf_a
        /\ \A m \in LeafUniverse \ {dnf_l} :
            dnf_a = times(singleton(m), singleton(dnf_l)) => dnf_r = singleton(m)
    /\ discharge(singleton(dnf_l), dnf_l) = one
    /\ dnf_l \notin LeavesOf(dnf_a) => discharge(dnf_a, dnf_l) = dnf_a
    /\ \A m \in LeafUniverse \ {dnf_l} :
        discharge(times(singleton(m), singleton(dnf_l)), dnf_l) = singleton(m)

\* A discharge of the leaf out of the product of two singletons.
C14_Witness ==
    /\ dnf_op = "discharge"
    /\ \E m \in LeafUniverse \ {dnf_l} :
        /\ dnf_a = times(singleton(m), singleton(dnf_l))
        /\ dnf_r = singleton(m)

\* The 0-based position of a value in the order of first interning.
FirstPos(t) == (CHOOSE k \in 1..Len(seen) : seen[k] = t) - 1

\* C15: after any sequence of intern calls, intern(a) = intern(b) iff
\* a = b; get(intern(a)) = a; the k-th distinct value interned has id k-1
\* and keeps it: get of that id returns it and intern of it returns that id.
C15_InternerConsistent ==
    /\ \A a, b \in InternValues :
        (intern_id(intr, a) = intern_id(intern(intr, a), b)) <=> (a = b)
    /\ \A a \in InternValues :
        Interner_get(intern(intr, a), intern_id(intr, a)) = a
    /\ Len(intr.id_to_obj) = Len(seen)
    /\ \A k \in 1..Len(seen) :
        /\ Interner_get(intr, k - 1) = seen[k]
        /\ intern_id(intr, seen[k]) = k - 1
    /\ iret.op = "intern" => iret.id = FirstPos(iret.t)
    /\ iret.op = "get" => iret.t = seen[iret.id + 1]

\* A value interned again after two others were interned since its first
\* call.
C15_Witness ==
    /\ iret.op = "intern"
    /\ Len(seen) = 3
    /\ iret.t = seen[1]
    /\ iret.id = 0

\* The rule statements among the first n statements, in order.
RulesBefore(n) == SelectSeq(SubSeq(stmts, 1, n), LAMBDA stmt : stmt.kind = "rule")

\* The relations named by the first n statements.
RelationsBefore(n) ==
    UNION { {atom.relation : atom \in Range(stmt_atoms(stmts[k]))} : k \in 1..n }

\* One more application of a rule to one answer of its body, as the insert
\* loop of interpret_rules does it: the tables after it.
ApplyRule(rule, answer) ==
    LET ord == order(rule.body)
        determinant == substitute_into_atom(rule.head, answer, ord)
        body_assumption ==
            get_body_assumption_for_answer(tables, interner, answer, rule.body, ord)
    IN  IF rule.speculate
        THEN insert_speculatively(tables, interner, rule.head.relation,
                                  determinant, body_assumption).tables
        ELSE insert_head(tables, interner, rule.head.relation,
                         determinant, body_assumption).tables

\* The tables are closed under a rule: applying it to any answer of its
\* body (queried in full, not semi-naively) leaves every table as it is.
ClosedUnder(rule) ==
    \E ans \in {query(tables, rule.body, order(rule.body), FALSE)} :
        \A j \in 0..(ans.num_rows - 1) :
            ApplyRule(rule, get_row(ans, j)) = tables

\* C16: when the question at position stmt_idx is evaluated, the rule
\* buffer holds exactly the rules declared before it (those before earlier
\* questions included, none declared later), the tables are those of the
\* relations named up to it, and the tables are a fixpoint of these rules.
C16_QuestionSeesRulesBefore ==
    pc = "question" =>
        /\ rules = RulesBefore(stmt_idx)
        /\ DOMAIN tables = RelationsBefore(stmt_idx + 1)
        /\ \A i \in 1..Len(rules) : ClosedUnder(rules[i])

\* A question after an earlier question, with a rule declared before the
\* earlier one, rules declared between the two, and a table of a relation
\* that only the later rules derive.
C16_Witness ==
    /\ pc = "question"
    /\ stmts = ProgTwoQuestions
    /\ stmt_idx = 4
    /\ Len(rules) = 3
    /\ MapTable_num_rows(tables["P"]) > 0

\* C17 (as claimed): at the end of `[X(1,2)] :- . X(a,b) :- X(a,b).
\* ? X(a,b).` the table of X holds exactly one live row, (1,2), and its
\* provenance is the single leaf of that row.
C17_RecursiveSpeculation ==
    (pc = "done" /\ stmts = ProgRecursiveSpeculation) =>
        /\ Len(MapTable_rows(tables["X"], FALSE)) = 1
        /\ \E id \in LiveIds(tables["X"]) :
            LiveContent("X") = {<< <<1, 2>>, singleton(LeafAssumption("X", id)) >>}

\* The live rows of a SetTable: in the index and not tombstoned.
SetLiveIds(t) == {te.row : te \in t.table} \ t.deleted_rows

\* C18: a SetTable insert of a row equal to a live row returns that row's
\* id and leaves the table as it was (rows, index, tombstones, delta and
\* changed()); an insert of a row with no equal live row appends it, under
\* the id that was the row count, and leaves the other rows as they were.
C18_SetInsertIdempotent ==
    sret.op = "insert" =>
        LET pre == sret.pre
            equal == {id \in SetLiveIds(pre) : get_row(pre.rows, id) = sret.row}
        IN  IF equal # {}
            THEN /\ sret.row_id \in equal
                 /\ st = pre
                 /\ SetTable_changed(st) = SetTable_changed(pre)
            ELSE /\ sret.row_id = pre.rows.num_rows
                 /\ st.rows.num_rows = pre.rows.num_rows + 1
                 /\ get_row(st.rows, sret.row_id) = sret.row
                 /\ SetLiveIds(st) = SetLiveIds(pre) \cup {sret.row_id}
                 /\ \A id \in 0..(pre.rows.num_rows - 1) :
                        get_row(st.rows, id) = get_row(pre.rows, id)
                 /\ st.deleted_rows = pre.deleted_rows
                 /\ st.delta = pre.delta

\* The insert of a row equal to a live row, with a live row of the same hash
\* and a tombstoned row of the same content in the table.
C18_Witness ==
    /\ sret.op = "insert"
    /\ st = sret.pre
    /\ \E id \in st.deleted_rows : get_row(st.rows, id) = sret.row
    /\ \E id \in SetLiveIds(st) :
        /\ get_row(st.rows, id) # sret.row
        /\ hash(get_row(st.rows, id)) = hash(sret.row)

\* What delete does to a table (MapTable or SetTable) on a live id: exactly
\* the index entry of that id is gone, the id is tombstoned, and rows and
\* delta are as before.
DeletedExactly(pre, post, id) ==
    /\ \E te \in pre.table : te.row = id /\ post.table = pre.table \ {te}
    /\ {te.row : te \in post.table} = {te.row : te \in pre.table} \ {id}
    /\ post.deleted_rows = pre.deleted_rows \cup {id}
    /\ post.rows = pre.rows
    /\ post.delta = pre.delta

\* C19: a delete that returns was called on a live row id and removed
\* exactly its index entry and tombstoned it; a delete panics exactly when
\* the id is tombstoned or not below the row count, and then the table is
\* as before.  For MapTable and for SetTable.
C19_DeleteByRowId ==
    /\ tret.op = "delete" =>
        /\ tret.row_id \in LiveIds(tret.pre)
        /\ DeletedExactly(tret.pre, mt, tret.row_id)
    /\ tret.op = "panic" =>
        /\ tret.row_id \in tret.pre.deleted_rows
            \/ tret.row_id >= tret.pre.rows.num_rows
        /\ mt = tret.pre
    /\ sret.op = "delete" =>
        /\ sret.row_id \in SetLiveIds(sret.pre)
        /\ DeletedExactly(sret.pre, st, sret.row_id)
    /\ sret.op = "panic" =>
        /\ sret.row_id \in sret.pre.deleted_rows
            \/ sret.row_id >= sret.pre.rows.num_rows
        /\ st = sret.pre

\* A MapTable delete of a live row with another live row of the same hash
\* and a tombstoned row of the same determinant in the table.
C19_Witness ==
    /\ tret.op = "delete"
    /\ \E id \in LiveIds(mt) :
        hash(Determinant(mt, id)) = hash(Determinant(mt, tret.row_id))
    /\ \E id \in tret.pre.deleted_rows :
        Determinant(mt, id) = Determinant(mt, tret.row_id)

\* The variables a statement may use: those of its plain body literals and
\* of the right-hand sides of its body arrows.
RangeVars(stmt) ==
    UNION { LiteralAST_vars(atom.lit2) :
            atom \in {a \in Range(stmt.body) : a.kind \in {"Literal", "Arrow"}} }

HeadVarOutOfRange(stmt) ==
    stmt.kind = "Rule" /\ ~(AtomAST_vars(stmt.head) \subseteq RangeVars(stmt))

BodyHypothesisVarOutOfRange(stmt) ==
    \E atom \in Range(stmt.body) :
        /\ atom.kind \in {"Brackets", "Arrow"}
        /\ ~(LiteralAST_vars(atom.lit) \subseteq RangeVars(stmt))

HeadIsArrow(stmt) == stmt.kind = "Rule" /\ stmt.head.kind = "Arrow"

\* C20: check returns false exactly when a head variable is outside the
\* range, or a variable of a body bracket atom or of the left-hand side of
\* a body arrow is outside the range, or the head is an arrow.
C20_CheckRangeRestriction ==
    c_ret.called =>
        (c_ret.value <=> ~(\/ HeadVarOutOfRange(c_stmt)
                           \/ BodyHypothesisVarOutOfRange(c_stmt)
                           \/ HeadIsArrow(c_stmt)))

\* A rule rejected only for its body bracket: the head's variable is in the
\* range, the bracket's is not.
C20_Witness ==
    /\ c_ret.called
    /\ ~c_ret.value
    /\ ~HeadVarOutOfRange(c_stmt)
    /\ ~HeadIsArrow(c_stmt)
    /\ Len(c_stmt.body) = 2
    /\ AtomAST_vars(c_stmt.head) # {}

AnswerRows(rows) == [i \in 1..rows.num_rows |-> get_row(rows, i - 1)]

\* The provenance cell of the live row of the table of body literal j
\* (0-based) that an answer row's assignment selects.
MatchedProvenance(tabs, q, answer, j) ==
    MapTable_get(tabs[q[j + 1].rhs.relation],
                 substitute_into_atom(q[j + 1].rhs, answer, order(q))).value

ProvenanceInOrder(tabs, q, rows) ==
    \A i \in 1..rows.num_rows : \A j \in 0..(Len(q) - 1) :
        get_row(rows, i - 1)[Len(order(q)) + j + 1]
            = MatchedProvenance(tabs, q, get_row(rows, i - 1), j)

\* C22 (as claimed): in every answer row of a semi-naive query the cell in
\* column |order| + j is the provenance cell of the table row matched
\* against body literal j, for bodies of three literals too.
C22_ProvenanceInOrder ==
    q_ret.op = "query" /\ q_ret.semi_naive =>
        ProvenanceInOrder(q_tabs, q_ret.query, q_ret.rows)

\* The full join of a body over the live rows of its tables: one record per
\* tuple of live row ids (ids[j] taken from the table of literal j) and
\* assignment of the body's variables that agrees with every term.
JoinTuples(tabs, q) ==
    { t \in [ids : [1..Len(q) -> 0..MaxQueryRows],
             asg : [Range(order(q)) -> QueryCells]] :
        \A j \in 1..Len(q) :
            /\ t.ids[j] \in LiveIds(tabs[q[j].rhs.relation])
            /\ \A c \in 1..Len(q[j].rhs.terms) :
                get_row(tabs[q[j].rhs.relation].rows, t.ids[j])[c]
                    = IF q[j].rhs.terms[c].kind = "var"
                      THEN t.asg[q[j].rhs.terms[c].symbol]
                      ELSE q[j].rhs.terms[c].value }

\* A tuple of the join touches a new row: some literal is matched by a row
\* at or after the delta of its table.
TouchesNew(tabs, q, t) ==
    \E j \in 1..Len(q) : t.ids[j] >= tabs[q[j].rhs.relation].delta

AsgSeq(q, t) == [k \in 1..Len(order(q)) |-> t.asg[order(q)[k]]]

AnswerAssignments(q, rows) ==
    {SubSeq(get_row(rows, i - 1), 1, Len(order(q))) : i \in 1..rows.num_rows}

\* C23: the assignments of a semi-naive answer over a body of m >= 1
\* literals are those of the tuples of the full join over live rows that
\* touch a new row: none is missed and a tuple of old rows gives none.
C23_SemiNaiveIsDeltaJoin ==
    (q_ret.op = "query" /\ q_ret.semi_naive /\ q_ret.query # <<>>) =>
        AnswerAssignments(q_ret.query, q_ret.rows)
            = {AsgSeq(q_ret.query, t) :
                t \in {u \in JoinTuples(q_tabs, q_ret.query) :
                            TouchesNew(q_tabs, q_ret.query, u)}}

\* A semi-naive query over two literals whose join has a tuple of old rows
\* only, which is not answered, and a tuple whose only new row matches the
\* second literal, which is.
C23_Witness ==
    /\ q_ret.op = "query" /\ q_ret.semi_naive /\ Len(q_ret.query) >= 2
    /\ \E t \in JoinTuples(q_tabs, q_ret.query) :
        /\ ~TouchesNew(q_tabs, q_ret.query, t)
        /\ AsgSeq(q_ret.query, t) \notin AnswerAssignments(q_ret.query, q_ret.rows)
    /\ \E t \in JoinTuples(q_tabs, q_ret.query) :
        /\ t.ids[1] < q_tabs[q_ret.query[1].rhs.relation].delta
        /\ TouchesNew(q_tabs, q_ret.query, t)

\* The answer row of a tuple of the join: the assignment in the order of
\* the variables, then the provenance cell of the row of each literal.
ExpectedRow(tabs, q, t) ==
    AsgSeq(q, t)
    \o [j \in 1..Len(q) |->
            LET row == get_row(tabs[q[j].rhs.relation].rows, t.ids[j])
            IN  row[Len(row)]]

\* C24: a query with semi_naive = false returns one row per tuple of the
\* full join over live rows (repeated variables agree, constants equal the
\* cell, tombstoned rows take no part), of width |order| + m, holding the
\* assignment and then the provenance cell of the row of each literal.
C24_QueryIsFullJoin ==
    (q_ret.op = "query" /\ ~q_ret.semi_naive) =>
        /\ q_ret.rows.num_columns = Len(order(q_ret.query)) + Len(q_ret.query)
        /\ q_ret.rows.num_rows = Cardinality(JoinTuples(q_tabs, q_ret.query))
        /\ Range(AnswerRows(q_ret.rows))
            = {ExpectedRow(q_tabs, q_ret.query, t) :
                t \in JoinTuples(q_tabs, q_ret.query)}

\* A full query with a variable repeated inside one atom, over a table
\* with a tombstoned row, a live row the repetition rejects and a live row
\* it accepts.
C24_Witness ==
    /\ q_ret.op = "query" /\ ~q_ret.semi_naive
    /\ q_ret.query = <<Lit("E", <<vx, vx>>)>>
    /\ q_tabs["E"].deleted_rows # {}
    /\ q_ret.rows.num_rows = 1
    /\ Cardinality(LiveIds(q_tabs["E"])) = 2

\* The leaves made for the tuple an lhs atom stands for under an answer.
LeavesOfTuple(lhs_atom, answer, ord) ==
    {LeafAssumption(m.relation, m.row_id) :
        m \in {n \in hist.minted :
                /\ n.relation = lhs_atom.relation
                /\ n.determinant = substitute_into_atom(lhs_atom, answer, ord)}}

\* The provenance captured for body literal j (1-based) with the leaves of
\* its speculated lhs tuples discharged.
DischargedProvenance(answer, body, ord, j) ==
    LET captured == Interner_get(interner, answer[Len(ord) + j])
        leaves == UNION {LeavesOfTuple(body[j].lhs[k], answer, ord) :
                            k \in 1..Len(body[j].lhs)}
    IN  weak_simplify({conj \ leaves : conj \in captured})

RECURSIVE ProductOfBody(_, _, _, _)
ProductOfBody(answer, body, ord, j) ==
    IF j > Len(body) THEN one
    ELSE times(DischargedProvenance(answer, body, ord, j),
               ProductOfBody(answer, body, ord, j + 1))

C28_LeafStable ==
    \A m \in hist.minted :
        /\ \A n \in hist.minted :
            (n.relation = m.relation /\ n.determinant = m.determinant)
                => n.row_id = m.row_id
        /\ m.row_id \notin tables[m.relation].deleted_rows
        /\ MapTable_get(tables[m.relation], m.determinant).found
        /\ MapTable_get(tables[m.relation], m.determinant).row_id = m.row_id

\* The live rows of a relation appended in the insert step of an iteration
\* of the phase under way.
BornIn(relation, n) ==
    {b.row_id : b \in {c \in hist.born :
                        c.relation = relation /\ c.phase = stmt_idx /\ c.iter = n}}
    \cap LiveIds(tables[relation])

\* C26: at the query step of iteration n + 1 of a phase, rows(true) of every
\* table yields the live rows appended in the insert step of iteration n
\* and no others (so none appended in an earlier iteration); at the query
\* step of the first iteration it yields every live row.  (pc = "mark" is
\* the state right after the query step, the tables being those it read
\* and iter the number of the iteration.)
C26_NewRowsEnumeratedOnce ==
    pc = "mark" =>
        \A relation \in DOMAIN tables :
            Range(MapTable_rows(tables[relation], TRUE))
                = IF iter = 1 THEN LiveIds(tables[relation])
                  ELSE BornIn(relation, iter - 1)

\* An iteration after the first with a table holding a live row appended in
\* the iteration before, enumerated as new, and an older live row, not
\* enumerated.
C26_Witness ==
    /\ pc = "mark"
    /\ iter >= 2
    /\ \E relation \in DOMAIN tables :
        /\ BornIn(relation, iter - 1) # {}
        /\ LiveIds(tables[relation]) \ BornIn(relation, iter - 1) # {}

\* The head insert that has just run (answer_idx counts the answer rows of
\* the rule at rule_idx already inserted) was one of an empty-body rule.
AfterEmptyBodyInsert ==
    /\ pc = "insert"
    /\ rule_idx < Len(rules)
    /\ answer_idx >= 1
    /\ CurRule.body = <<>>

OnlyEmptyBodies == rules # <<>> /\ \A i \in 1..Len(rules) : rules[i].body = <<>>

\* C27: in every iteration an empty-body rule has exactly one answer row, of
\* no columns, and body provenance one; its head, constants only, is then
\* in its table, with provenance one if the rule is not speculative; the
\* insert appends no row from the second iteration on; and with rules of
\* empty bodies only the loop ends after the second iteration (after the
\* first one in a later phase, where nothing is new).
C27_EmptyBody ==
    /\ pc \in {"mark", "insert"} =>
        \A i \in 1..Len(rules) :
            rules[i].body = <<>> =>
                answers[i].num_rows = 1 /\ answers[i].num_columns = 0
    /\ (AtAnswer /\ CurRule.body = <<>>) =>
        /\ CurBodyAssumption = one
        /\ CurAnswer = <<>>
    /\ AfterEmptyBodyInsert =>
        /\ answer_idx = 1
        /\ hist.relation = CurRule.head.relation
        /\ hist.determinant = [k \in 1..Len(CurRule.head.terms) |->
                                  CurRule.head.terms[k].value]
        /\ hist.body_assumption = one
        /\ MapTable_get(tables[hist.relation], hist.determinant).found
        /\ MapTable_get(tables[hist.relation], hist.determinant).row_id = hist.row_id
        /\ ~CurRule.speculate =>
            Interner_get(interner,
                MapTable_get(tables[hist.relation], hist.determinant).value) = one
        /\ iter >= 2 => ~hist.appended
    /\ (pc = "question" /\ OnlyEmptyBodies) =>
        /\ iter <= 2
        /\ (\A k \in 1..stmt_idx : stmts[k].kind = "rule") => iter = 2

\* The second iteration of a program of two empty-body rules, after the
\* second derivation of a fact.
C27_Witness ==
    /\ AfterEmptyBodyInsert
    /\ ~CurRule.speculate
    /\ iter = 2
    /\ OnlyEmptyBodies
    /\ Len(rules) = 2

\* The (determinant, provenance) pairs of the live rows of a relation in
\* given tables, the provenance read through a given interner.
ContentOf(tabs, in, relation) ==
    { <<Determinant(tabs[relation], id),
        Interner_get(in, ValueCell(tabs[relation], id))>> :
      id \in LiveIds(tabs[relation]) }

\* The naive fixpoint: the loop of interpret_rules with every body queried
\* over all live rows (semi_naive = false).  env holds the tables and the
\* interner.  naive_insert_one is the head insert for one answer row,
\* naive_insert_answers the loop over the answer rows of one rule,
\* naive_insert_rules the loop over the rules, naive_fixpoint the outer
\* loop, run for at most fuel iterations.
naive_insert_one(env, rule, answer) ==
    CHOOSE e \in
        { [tables |-> r.tables, interner |-> r.interner] :
          r \in { IF rule.speculate
                  THEN insert_speculatively(env.tables, env.interner,
                            rule.head.relation,
                            substitute_into_atom(rule.head, answer, order(rule.body)),
                            get_body_assumption_for_answer(env.tables, env.interner,
                                answer, rule.body, order(rule.body)))
                  ELSE insert_head(env.tables, env.interner,
                            rule.head.relation,
                            substitute_into_atom(rule.head, answer, order(rule.body)),
                            get_body_assumption_for_answer(env.tables, env.interner,
                                answer, rule.body, order(rule.body))) } } : TRUE

RECURSIVE naive_insert_answers(_, _, _, _)
naive_insert_answers(env, rule, answer, idx) ==
    IF idx >= answer.num_rows THEN env
    ELSE CHOOSE out \in
            { naive_insert_answers(e, rule, answer, idx + 1) :
              e \in {naive_insert_one(env, rule, get_row(answer, idx))} } : TRUE

RECURSIVE naive_insert_rules(_, _, _, _)
naive_insert_rules(env, rs, all_answers, idx) ==
    IF idx > Len(rs) THEN env
    ELSE CHOOSE out \in
            { naive_insert_rules(e, rs, all_answers, idx + 1) :
              e \in {naive_insert_answers(env, rs[idx], all_answers[idx], 0)} } : TRUE

RECURSIVE naive_fixpoint(_, _, _)
naive_fixpoint(env, rs, fuel) ==
    CHOOSE out \in
        { IF fuel > 0 /\ \E r \in DOMAIN e.tables : changed(e.tables[r])
          THEN naive_fixpoint(e, rs, fuel - 1) ELSE e :
          e \in { naive_insert_rules(
                    [tables |-> [r \in DOMAIN env.tables |-> mark_delta(env.tables[r])],
                     interner |-> env.interner],
                    rs,
                    [i \in 1..Len(rs) |->
                        query(env.tables, rs[i].body, order(rs[i].body), FALSE)],
                    1) } } : TRUE

\* C29: when interpret_rules exits, the live (determinant, provenance)
\* content of every table is that of the naive fixpoint run from the tables
\* and the interner the phase started from.
C29_SemiNaiveEqualsNaive ==
    pc = "question" =>
        \E naive \in {naive_fixpoint(hist.start, rules, RowCap)} :
            \A relation \in DOMAIN tables :
                ContentOf(tables, interner, relation)
                    = ContentOf(naive.tables, naive.interner, relation)

\* The exit of interpret_rules for the transitive closure program, which
\* takes more than two iterations and joins two literals.
C29_Witness ==
    /\ pc = "question"
    /\ stmts = ProgTransitiveClosure
    /\ iter >= 3
    /\ Cardinality(ContentOf(tables, interner, "P")) = 6

\* C30: during interpret_rules a determinant with a live row keeps having
\* one, and when its live row is replaced the provenance of the new row
\* absorbs that of the old one.
C30_TablesOnlyGrow ==
    [][\A relation \in DOMAIN tables :
        \A old \in ContentOf(tables, interner, relation) :
            \E new \in ContentOf(tables', interner', relation) :
                new[1] = old[1] /\ plus(old[2], new[2]) = new[2]]_vars

\* A fact joins a speculated tuple: the row of A() with provenance zero is
\* replaced by one with provenance one.
C30_Witness ==
    /\ hist.op = "insert"
    /\ hist.row_id \in {b.row_id : b \in {c \in hist.born : c.relation = hist.relation}}
    /\ tables[hist.relation].deleted_rows # {}
    /\ hist.row_id >= 1

\* interpret_rules is running, or has just returned, for a question that
\* directly follows another question: the same rules run again on the tables
\* their fixpoint left.
InRerun ==
    /\ pc \in {"query", "mark", "insert", "question"}
    /\ stmt_idx >= 1
    /\ stmts[stmt_idx].kind = "question"

\* C31: interpret_rules run again right after its fixpoint stops after one
\* iteration and leaves every table as it found it: no row appended, no row
\* tombstoned, every live row under the row id it had.
C31_RerunChangesNothing ==
    InRerun =>
        /\ iter <= 1
        /\ pc = "insert" => ~AnyChanged
        /\ \A relation \in DOMAIN tables :
            /\ tables[relation].rows = hist.start.tables[relation].rows
            /\ tables[relation].table = hist.start.tables[relation].table
            /\ tables[relation].deleted_rows
                 = hist.start.tables[relation].deleted_rows

\* The second run has returned after re-deriving a head from a non-empty
\* body and offering a speculated tuple again.
C31_Witness ==
    /\ InRerun
    /\ pc = "question"
    /\ iter = 1
    /\ \E i \in 1..Len(rules) :
        /\ ~rules[i].speculate
        /\ rules[i].body # <<>>
        /\ answers[i].num_rows > 0
    /\ \E i \in 1..Len(rules) : rules[i].speculate /\ answers[i].num_rows > 0
    /\ \E relation \in DOMAIN tables : tables[relation].rows.num_rows > 0

\* interpret_rules as a function of the tables, the interner and the rule
\* vector: reset_delta on every table, then the loop of semi-naive queries,
\* mark_delta and head inserts (the insert loops are those of the naive
\* fixpoint above; only the queries differ), until no table has changed.
\* The loop runs for at most fuel + 1 passes.
RECURSIVE interpret_rules_loop(_, _, _)
interpret_rules_loop(env, rs, fuel) ==
    CHOOSE out \in
        { IF fuel > 0 /\ \E r \in DOMAIN e.tables : changed(e.tables[r])
          THEN interpret_rules_loop(e, rs, fuel - 1) ELSE e :
          e \in { naive_insert_rules(
                    [tables |-> [r \in DOMAIN env.tables |-> mark_delta(env.tables[r])],
                     interner |-> env.interner],
                    rs,
                    [i \in 1..Len(rs) |->
                        query(env.tables, rs[i].body, order(rs[i].body), TRUE)],
                    1) } } : TRUE

interpret_rules(env, rs) ==
    interpret_rules_loop(
        [tables |-> [r \in DOMAIN env.tables |-> reset_delta(env.tables[r])],
         interner |-> env.interner],
        rs, RowCap)

\* The orders a vector of n rules can be listed in.
Orders(n) ==
    {perm \in [1..n -> 1..n] : \A i, j \in 1..n : i # j => perm[i] # perm[j]}

\* The content of a relation with every leaf of a provenance replaced by the
\* tuple it labels (the determinant of the row the leaf names).
LabelledContent(tabs, in, relation) ==
    { <<c[1],
        { { [relation |-> leaf.relation,
             tuple |-> Determinant(tabs[leaf.relation], leaf.tuple)] : leaf \in conj } :
          conj \in c[2] }>> :
      c \in ContentOf(tabs, in, relation) }

\* C32: when interpret_rules returns, the live (determinant, provenance)
\* content of every table is the one interpret_rules reaches from the same
\* starting tables with the rules listed in any other order.
C32_RuleOrderIrrelevant ==
    pc = "question" =>
        \A perm \in Orders(Len(rules)) :
            \E run \in {interpret_rules(hist.start,
                                        [i \in 1..Len(rules) |-> rules[perm[i]]])} :
                \A relation \in DOMAIN tables :
                    LabelledContent(tables, interner, relation)
                        = LabelledContent(run.tables, run.interner, relation)

\* interpret_rules has returned for rules that, listed in another order,
\* leave a table with other rows (other row ids or tombstones) behind: the
\* order of the head inserts within an iteration showed in the tables.
C32_Witness ==
    /\ pc = "question"
    /\ Len(rules) >= 2
    /\ \E perm \in Orders(Len(rules)) :
        \E run \in {interpret_rules(hist.start,
                                    [i \in 1..Len(rules) |-> rules[perm[i]]])} :
            \E relation \in DOMAIN tables :
                \/ run.tables[relation].rows # tables[relation].rows
                \/ run.tables[relation].deleted_rows # tables[relation].deleted_rows

====
